---- MODULE Spec2Model ----
(***************************************************************************)
(* Model of the MK Processor batch engine (src/main.py): the SheetRow      *)
(* row processor, its worker threads running process_file, the signals     *)
(* they queue for the GUI thread, and the MainWindow run-all queue.        *)
(***************************************************************************)
EXTENDS Integers, Sequences, FiniteSets, TLC

(* ---------------------------------------------------------------- bounds *)
NumRows == 2       \* SheetRow widgets in the scroll layout
MaxRecords == 2    \* records of an input table
MaxWorkers == 2    \* live worker threads of the process
MaxTimers == 2     \* pending QTimer.singleShot(process_next_row) timers
MaxSignals == 1    \* queued, undelivered signals of one row

Rows == 1..NumRows

(* The dropdown's empty item, and the file a row's operator picks.  The    *)
(* file names follow the "Globe-605" pattern, so that selecting one also   *)
(* fills the prefix input (extract_prefix_from_filename).                  *)
NoFile == <<>>
FileOf(r) == <<"Globe-605", r>>
NoPrefix == ""
NoPath == <<>>

(* An input record is a record whose fetch yields a title ("hit") or the   *)
(* "Title not found" sentinel ("miss"); the fetch stub is deterministic.   *)
RecordKinds == {"hit", "miss"}
Tables == UNION {[1..n -> RecordKinds] : n \in 0..MaxRecords}

(* What load_file_data and the column search can meet: a file of an        *)
(* unsupported type, a table without the "Mfr Model" column, or a table.   *)
InputFile(loadable, hasCol, recs) ==
    [loadable |-> loadable, hasCol |-> hasCol, recs |-> recs]
InputFiles ==
    {InputFile(FALSE, FALSE, <<>>), InputFile(TRUE, FALSE, <<>>)}
        \cup {InputFile(TRUE, TRUE, t) : t \in Tables}

\* the files of the run-all model: one record each, with no match
BatchFiles == {InputFile(TRUE, TRUE, <<"miss">>)}

VARIABLES
    rows,       \* rows[r]: the fields of SheetRow r (GUI thread + worker)
    threads,    \* threads[r]: the live threading.Thread workers of row r
    signals,    \* signals[r]: finished/error emissions queued for the GUI thread
    disk,       \* disk[r]: the output artifact at row r's output path
    win,        \* the MainWindow fields
    timers,     \* pending singleShot(100, process_next_row) timers
    files,      \* files[r]: the content of the input file row r selects
    disk_ok,    \* whether a write to the output directory succeeds now
    hist,       \* history of row r's current run (not program state)
    job,        \* one run of process_file, statement by statement
    call,       \* one call of a function: its arguments and its result
    lists       \* lists[r]: the file names in the dropdown of row r

vars == <<rows, threads, signals, disk, win, timers, files, disk_ok, hist, job, call,
          lists>>
env == <<files, disk_ok>>
NoJob == [pc |-> "none"]
NoCall == [fn |-> "none"]
NoLists == <<>>

(* ------------------------------------------------------------- SheetRow *)
\* SheetRow.__init__ and setup_ui
NewRow ==
    [running |-> FALSE, completed |-> FALSE, status_label |-> "Ready",
     start_btn |-> TRUE, stop_btn |-> FALSE,
     file_dropdown |-> NoFile, selected_file |-> NoFile,
     prefix_input |-> NoPrefix, controls |-> TRUE,
     output_df |-> <<>>, output_path |-> NoPath]

\* the thread object created by start_processing, before it has run
NewWorker == [pc |-> "start", df |-> <<>>, i |-> 0]

\* the validation at the top of start_processing
CanStart(row) ==
    /\ ~row.running
    /\ row.file_dropdown # NoFile
    /\ row.prefix_input # NoPrefix

start_processing(row) ==
    IF CanStart(row)
    THEN [row EXCEPT !.running = TRUE, !.completed = FALSE,
                     !.start_btn = FALSE, !.stop_btn = TRUE,
                     !.status_label = "Starting..."]
    ELSE row

\* a stop_processing that leaves the worker's running flag set
stop_processing_NoCancel(row) ==
    IF ~row.running
    THEN row
    ELSE [row EXCEPT !.start_btn = TRUE, !.stop_btn = FALSE,
                     !.status_label = "Stopped"]

stop_processing(row) ==
    IF ~row.running
    THEN row
    ELSE [row EXCEPT !.running = FALSE, !.completed = TRUE,
                     !.start_btn = TRUE, !.stop_btn = FALSE,
                     !.status_label = "Stopped"]

reset_state(row) ==
    [row EXCEPT !.running = FALSE, !.completed = FALSE,
                !.status_label = "Ready",
                !.start_btn = TRUE, !.stop_btn = FALSE]

lock_controls(row, locked) == [row EXCEPT !.controls = ~locked]

on_processing_finished(row) ==
    [row EXCEPT !.running = FALSE, !.completed = TRUE,
                !.start_btn = TRUE, !.stop_btn = FALSE,
                !.status_label = "Completed"]

on_processing_error(row) ==
    [row EXCEPT !.running = FALSE, !.completed = FALSE,
                !.start_btn = TRUE, !.stop_btn = FALSE,
                !.status_label = "Error"]

\* file_selected with extract_prefix_from_filename
file_selected(row, f) ==
    IF f # NoFile
    THEN [row EXCEPT !.file_dropdown = f, !.selected_file = f,
                     !.prefix_input = "605"]
    ELSE [row EXCEPT !.file_dropdown = f, !.selected_file = NoFile]

(* The job state of a row.  The code keeps no state field: it keeps the    *)
(* running and completed flags, and tells Stopped from Completed and Error *)
(* from Idle only by the text of the status label.                         *)
RowState(row) ==
    IF row.running THEN "Running"
    ELSE IF row.completed
         THEN (IF row.status_label = "Completed" THEN "Completed" ELSE "Stopped")
         ELSE (IF row.status_label = "Error" THEN "Error" ELSE "Idle")

(* ----------------------------------------------------------- MainWindow *)
NewWindow ==
    [processing_queue |-> <<>>, current_processing_index |-> -1,
     start_all_btn |-> TRUE, stop_all_btn |-> FALSE, status_label |-> "Ready"]

RowSeq == [i \in 1..NumRows |-> i]

\* the row filter of start_all
ValidRow(row) == row.file_dropdown # NoFile /\ row.prefix_input # NoPrefix

\* threads of a row after start_processing was called on it
Spawn(row, ths) == IF CanStart(row) THEN Append(ths, NewWorker) ELSE ths

\* MainWindow._start_row
start_row(row) ==
    IF ~row.running /\ ~row.completed THEN start_processing(row) ELSE row

StartRowSpawns(row) == ~row.running /\ ~row.completed /\ CanStart(row)

(* process_next_row on the window w, the rows rs and the threads ths; the  *)
(* result holds the three after the call.                                  *)
process_next_row(w, rs, ths) ==
    IF ~w.stop_all_btn
    THEN [win |-> w, rows |-> rs, threads |-> ths]
    ELSE LET idx == w.current_processing_index + 1 IN
         IF idx >= Len(w.processing_queue)
         THEN [win |-> [w EXCEPT !.current_processing_index = idx,
                                 !.status_label = "All processing completed",
                                 !.start_all_btn = TRUE,
                                 !.stop_all_btn = FALSE],
               rows |-> rs, threads |-> ths]
         ELSE LET q == w.processing_queue[idx + 1] IN
              [win |-> [w EXCEPT !.current_processing_index = idx,
                                 !.status_label = "Starting file"],
               rows |-> [rs EXCEPT ![q] = start_row(@)],
               threads |-> IF StartRowSpawns(rs[q])
                           THEN [ths EXCEPT ![q] = Append(@, NewWorker)]
                           ELSE ths]

RECURSIVE LiveWorkers(_, _)
LiveWorkers(ths, n) == IF n = 0 THEN 0 ELSE Len(ths[n]) + LiveWorkers(ths, n - 1)

WithinWorkers(ths) == LiveWorkers(ths, NumRows) <= MaxWorkers

(* ---------------------------------------------------------------- Init *)
\* the state after MainWindow.__init__ and the operator's add_row clicks
Start ==
    /\ rows = [r \in Rows |-> NewRow]
    /\ threads = [r \in Rows |-> <<>>]
    /\ signals = [r \in Rows |-> <<>>]
    /\ disk = [r \in Rows |-> [exists |-> FALSE, rows |-> <<>>]]
    /\ win = NewWindow
    /\ timers = 0
    /\ disk_ok = TRUE
    /\ hist = [r \in Rows |-> [done |-> 0, stop_at |-> -1, save_failed |-> FALSE, inited |-> FALSE]]

Init ==
    /\ Start
    /\ files \in [Rows -> BatchFiles]
    /\ job = NoJob
    /\ call = NoCall
    /\ lists = NoLists

(* ------------------------------------------------- operator's actions *)
\* the operator picks an item of the file dropdown
FileSelected(r, f) ==
    /\ rows[r].controls
    /\ f # rows[r].file_dropdown
    /\ rows' = [rows EXCEPT ![r] = file_selected(@, f)]
    /\ UNCHANGED <<threads, signals, disk, win, timers, env>>

\* the operator clicks the row's Start button
ClickStart(r) ==
    /\ rows[r].start_btn
    /\ WithinWorkers([threads EXCEPT ![r] = Spawn(rows[r], @)])
    /\ rows' = [rows EXCEPT ![r] = start_processing(@)]
    /\ threads' = [threads EXCEPT ![r] = Spawn(rows[r], @)]
    /\ UNCHANGED <<signals, disk, win, timers, env>>

\* the operator clicks the row's Stop button
ClickStop(r) ==
    /\ rows[r].stop_btn
    /\ rows' = [rows EXCEPT ![r] = stop_processing(@)]
    /\ UNCHANGED <<threads, signals, disk, win, timers, env>>

\* the operator clicks Start All
start_all ==
    /\ win.start_all_btn
    /\ timers < MaxTimers
    /\ LET valid_rows == SelectSeq(RowSeq, LAMBDA r : ValidRow(rows[r])) IN
       /\ rows' = [r \in Rows |->
                     IF ValidRow(rows[r])
                     THEN lock_controls(reset_state(rows[r]), TRUE)
                     ELSE rows[r]]
       /\ IF valid_rows = <<>>
          THEN UNCHANGED <<win, timers>>
          ELSE /\ win' = [win EXCEPT
                            !.start_all_btn = FALSE,
                            !.stop_all_btn = TRUE,
                            !.status_label = "Starting sequential processing...",
                            !.processing_queue = valid_rows,
                            !.current_processing_index = -1]
               /\ timers' = timers + 1
    /\ UNCHANGED <<threads, signals, disk, env>>

\* the operator clicks Stop All
stop_all ==
    /\ win.stop_all_btn
    /\ rows' = [r \in Rows |->
                  lock_controls(
                    [stop_processing(rows[r]) EXCEPT !.status_label = "Stopped"],
                    FALSE)]
    /\ win' = [win EXCEPT !.processing_queue = <<>>,
                          !.start_all_btn = TRUE,
                          !.stop_all_btn = FALSE,
                          !.status_label = "Stopped"]
    /\ UNCHANGED <<threads, signals, disk, timers, env>>

(* ------------------------------------------------ GUI-thread events *)
\* a singleShot timer of start_all fires
TimerFires ==
    /\ timers > 0
    /\ LET res == process_next_row(win, rows, threads) IN
       /\ WithinWorkers(res.threads)
       /\ win' = res.win
       /\ rows' = res.rows
       /\ threads' = res.threads
    /\ timers' = timers - 1
    /\ UNCHANGED <<signals, disk, env>>

\* the queued finished signal of row r is delivered
DeliverFinished(r) ==
    /\ signals[r] # <<>>
    /\ Head(signals[r]).sig = "finished"
    /\ LET res == process_next_row(
                    win, [rows EXCEPT ![r] = on_processing_finished(@)], threads) IN
       /\ WithinWorkers(res.threads)
       /\ win' = res.win
       /\ rows' = res.rows
       /\ threads' = res.threads
    /\ signals' = [signals EXCEPT ![r] = Tail(@)]
    /\ UNCHANGED <<disk, timers, env>>

\* the queued error signal of row r is delivered
DeliverError(r) ==
    /\ signals[r] # <<>>
    /\ Head(signals[r]).sig = "error"
    /\ rows' = [rows EXCEPT ![r] = on_processing_error(@)]
    /\ signals' = [signals EXCEPT ![r] = Tail(@)]
    /\ UNCHANGED <<threads, disk, win, timers, env>>

(* ------------------------------------------------------ worker thread *)
RemoveAt(s, k) == [j \in 1..(Len(s) - 1) |-> IF j < k THEN s[j] ELSE s[j + 1]]

Emit(r, sig, msg) ==
    /\ Len(signals[r]) < MaxSignals
    /\ signals' = [signals EXCEPT ![r] = Append(@, [sig |-> sig, msg |-> msg])]

\* the worker ends with an error signal
EndWithError(r, k, msg) ==
    /\ Emit(r, "error", msg)
    /\ threads' = [threads EXCEPT ![r] = RemoveAt(@, k)]

\* a save_results that appends the newest row to the artifact it finds
save_results_AppendsLast(row, d, ok) ==
    IF row.output_path # NoPath /\ ok
    THEN [exists |-> TRUE,
          rows |-> IF row.output_df = <<>>
                   THEN <<>>
                   ELSE Append(d.rows, row.output_df[Len(row.output_df)])]
    ELSE d

\* save_results: a rewrite of the whole artifact; a failure is swallowed
save_results(row, d, ok) ==
    IF row.output_path # NoPath /\ ok
    THEN [exists |-> TRUE, rows |-> row.output_df]
    ELSE d

\* process_file up to the column search
ProcessFileBegin(r, k) ==
    /\ threads[r][k].pc = "start"
    /\ \E abort \in BOOLEAN :
         LET f == files[r] IN
         IF rows[r].file_dropdown = NoFile
         THEN EndWithError(r, k, "No file selected")
         ELSE IF abort
         THEN EndWithError(r, k, "Processing aborted by plugin")
         ELSE IF ~f.loadable
         THEN EndWithError(r, k, "Unsupported file type")
         ELSE IF ~f.hasCol
         THEN EndWithError(r, k, "Missing 'Mfr Model' column in file")
         ELSE /\ threads' = [threads EXCEPT ![r][k].pc = "init",
                                            ![r][k].df = f.recs]
              /\ UNCHANGED signals
    /\ UNCHANGED <<rows, disk, win, timers, env>>

\* a process_file that enters the record loop on an empty table as well
ProcessFileInit_NoEmptyCheck(r, k) ==
    /\ threads[r][k].pc = "init"
    /\ LET row1 == [rows[r] EXCEPT !.output_df = <<>>,
                                   !.output_path = <<"final", rows[r].file_dropdown>>]
       IN
       /\ rows' = [rows EXCEPT ![r] = row1]
       /\ disk' = [disk EXCEPT ![r] = save_results(row1, @, disk_ok)]
       /\ threads' = [threads EXCEPT ![r][k].pc = "loop"]
       /\ UNCHANGED signals
    /\ UNCHANGED <<win, timers, env>>

\* process_file from the output table's creation to the loop's start
ProcessFileInit(r, k) ==
    /\ threads[r][k].pc = "init"
    /\ LET row1 == [rows[r] EXCEPT !.output_df = <<>>,
                                   !.output_path = <<"final", rows[r].file_dropdown>>]
       IN
       /\ rows' = [rows EXCEPT ![r] = row1]
       /\ disk' = [disk EXCEPT ![r] = save_results(row1, @, disk_ok)]
       /\ IF Len(threads[r][k].df) = 0
          THEN EndWithError(r, k, "File contains no data rows")
          ELSE /\ threads' = [threads EXCEPT ![r][k].pc = "loop"]
               /\ UNCHANGED signals
    /\ UNCHANGED <<win, timers, env>>

\* the head of the record loop: the next record, or the end of the loop
ProcessFileCheck(r, k) ==
    /\ threads[r][k].pc = "loop"
    /\ threads' = [threads EXCEPT ![r][k].pc =
                     IF threads[r][k].i < Len(threads[r][k].df) /\ rows[r].running
                     THEN "fetch" ELSE "finish"]
    /\ UNCHANGED <<rows, signals, disk, win, timers, env>>

\* a record step that appends a row for an unmatched record as well
ProcessFileRecord_KeepsUnmatched(r, k) ==
    /\ threads[r][k].pc = "fetch"
    /\ LET n == threads[r][k].i + 1
           row1 == [rows[r] EXCEPT !.output_df = Append(@, n)]
       IN
       /\ rows' = [rows EXCEPT ![r] = row1]
       /\ disk' = [disk EXCEPT ![r] = save_results(row1, @, disk_ok)]
       /\ threads' = [threads EXCEPT ![r][k].pc = "loop", ![r][k].i = n]
    /\ UNCHANGED <<signals, win, timers, env>>

\* one record: fetch, row append and save, then the politeness delay
ProcessFileRecord(r, k) ==
    /\ threads[r][k].pc = "fetch"
    /\ LET t == threads[r][k]
           n == t.i + 1
       IN
       IF t.df[n] = "hit"
       THEN LET row1 == [rows[r] EXCEPT !.output_df = Append(@, n)] IN
            /\ rows' = [rows EXCEPT ![r] = row1]
            /\ disk' = [disk EXCEPT ![r] = save_results(row1, @, disk_ok)]
            /\ threads' = [threads EXCEPT ![r][k].pc = "loop", ![r][k].i = n]
       ELSE /\ threads' = [threads EXCEPT ![r][k].pc = "loop", ![r][k].i = n]
            /\ UNCHANGED <<rows, disk>>
    /\ UNCHANGED <<signals, win, timers, env>>

\* after the loop: the finished signal, if the row is still running
ProcessFileFinish(r, k) ==
    /\ threads[r][k].pc = "finish"
    /\ IF rows[r].running
       THEN Emit(r, "finished", "")
       ELSE UNCHANGED signals
    /\ threads' = [threads EXCEPT ![r] = RemoveAt(@, k)]
    /\ UNCHANGED <<rows, disk, win, timers, env>>

\* the output directory becomes unwritable, or writable again
DiskChanges ==
    /\ disk_ok' = ~disk_ok
    /\ UNCHANGED <<rows, threads, signals, disk, win, timers, files>>

(* ---------------------------------------------------------------- Next *)
(* The whole program: the operator works every row and both run-all       *)
(* buttons.                                                                *)
Next ==
    \/ \E r \in Rows : FileSelected(r, FileOf(r)) /\ UNCHANGED <<hist, job, call, lists>>
    \/ \E r \in Rows : ClickStart(r) /\ UNCHANGED <<hist, job, call, lists>>
    \/ \E r \in Rows : ClickStop(r) /\ UNCHANGED <<hist, job, call, lists>>
    \/ start_all /\ UNCHANGED <<hist, job, call, lists>>
    \/ stop_all /\ UNCHANGED <<hist, job, call, lists>>
    \/ TimerFires /\ UNCHANGED <<hist, job, call, lists>>
    \/ \E r \in Rows : DeliverFinished(r) /\ UNCHANGED <<hist, job, call, lists>>
    \/ \E r \in Rows : DeliverError(r) /\ UNCHANGED <<hist, job, call, lists>>
    \/ \E r \in Rows : \E k \in 1..Len(threads[r]) :
         ProcessFileBegin(r, k) /\ UNCHANGED <<hist, job, call, lists>>
    \/ \E r \in Rows : \E k \in 1..Len(threads[r]) :
         ProcessFileInit(r, k) /\ UNCHANGED <<hist, job, call, lists>>
    \/ \E r \in Rows : \E k \in 1..Len(threads[r]) :
         ProcessFileCheck(r, k) /\ UNCHANGED <<hist, job, call, lists>>
    \/ \E r \in Rows : \E k \in 1..Len(threads[r]) :
         ProcessFileRecord(r, k) /\ UNCHANGED <<hist, job, call, lists>>
    \/ \E r \in Rows : \E k \in 1..Len(threads[r]) :
         ProcessFileFinish(r, k) /\ UNCHANGED <<hist, job, call, lists>>

Spec == Init /\ [][Next]_vars

(* Run-all alone: the operator selects files and uses only Start All and   *)
(* Stop All.                                                               *)
NextBatch ==
    \/ \E r \in Rows : FileSelected(r, FileOf(r)) /\ UNCHANGED <<hist, job, call, lists>>
    \/ start_all /\ UNCHANGED <<hist, job, call, lists>>
    \/ stop_all /\ UNCHANGED <<hist, job, call, lists>>
    \/ TimerFires /\ UNCHANGED <<hist, job, call, lists>>
    \/ \E r \in Rows : DeliverFinished(r) /\ UNCHANGED <<hist, job, call, lists>>
    \/ \E r \in Rows : DeliverError(r) /\ UNCHANGED <<hist, job, call, lists>>
    \/ \E r \in Rows : \E k \in 1..Len(threads[r]) :
         ProcessFileBegin(r, k) /\ UNCHANGED <<hist, job, call, lists>>
    \/ \E r \in Rows : \E k \in 1..Len(threads[r]) :
         ProcessFileInit(r, k) /\ UNCHANGED <<hist, job, call, lists>>
    \/ \E r \in Rows : \E k \in 1..Len(threads[r]) :
         ProcessFileCheck(r, k) /\ UNCHANGED <<hist, job, call, lists>>
    \/ \E r \in Rows : \E k \in 1..Len(threads[r]) :
         ProcessFileRecord(r, k) /\ UNCHANGED <<hist, job, call, lists>>
    \/ \E r \in Rows : \E k \in 1..Len(threads[r]) :
         ProcessFileFinish(r, k) /\ UNCHANGED <<hist, job, call, lists>>

SpecBatch == Init /\ [][NextBatch]_vars

(* One processor: the operator works the first row with its own buttons,   *)
(* starts it again only once its worker thread has ended, and the output   *)
(* directory may become unwritable.  hist records, for the current run,    *)
(* the records finished, the records finished when Stop was clicked,       *)
(* whether a save failed, and whether the run created its output table.    *)
RunRows == {1}

InitRun ==
    /\ Start
    /\ \E f \in InputFiles :
         files = [r \in Rows |-> IF r \in RunRows THEN f ELSE InputFile(TRUE, TRUE, <<>>)]
    /\ job = NoJob
    /\ call = NoCall
    /\ lists = NoLists

NextRun ==
    \/ \E r \in RunRows : FileSelected(r, FileOf(r)) /\ UNCHANGED <<hist, job, call, lists>>
    \/ \E r \in RunRows :
         /\ threads[r] = <<>>
         /\ ClickStart(r)
         /\ hist' = [hist EXCEPT ![r] =
                       IF CanStart(rows[r])
                       THEN [done |-> 0, stop_at |-> -1, save_failed |-> FALSE, inited |-> FALSE]
                       ELSE @]
         /\ UNCHANGED <<job, call, lists>>
    \/ \E r \in RunRows :
         /\ ClickStop(r)
         /\ hist' = [hist EXCEPT ![r].stop_at = IF rows[r].running THEN hist[r].done ELSE @]
         /\ UNCHANGED <<job, call, lists>>
    \/ \E r \in RunRows : DeliverFinished(r) /\ UNCHANGED <<hist, job, call, lists>>
    \/ \E r \in RunRows : DeliverError(r) /\ UNCHANGED <<hist, job, call, lists>>
    \/ \E r \in RunRows : \E k \in 1..Len(threads[r]) :
         ProcessFileBegin(r, k) /\ UNCHANGED <<hist, job, call, lists>>
    \/ \E r \in RunRows : \E k \in 1..Len(threads[r]) :
         /\ ProcessFileInit(r, k)
         /\ hist' = [hist EXCEPT ![r].save_failed = @ \/ ~disk_ok,
                                  ![r].inited = TRUE]
         /\ UNCHANGED <<job, call, lists>>
    \/ \E r \in RunRows : \E k \in 1..Len(threads[r]) :
         ProcessFileCheck(r, k) /\ UNCHANGED <<hist, job, call, lists>>
    \/ \E r \in RunRows : \E k \in 1..Len(threads[r]) :
         /\ ProcessFileRecord(r, k)
         /\ hist' = [hist EXCEPT
                       ![r].done = @ + 1,
                       ![r].save_failed =
                           @ \/ (threads[r][k].df[threads[r][k].i + 1] = "hit" /\ ~disk_ok)]
         /\ UNCHANGED <<job, call, lists>>
    \/ \E r \in RunRows : \E k \in 1..Len(threads[r]) :
         ProcessFileFinish(r, k) /\ UNCHANGED <<hist, job, call, lists>>
    \/ DiskChanges /\ UNCHANGED <<hist, job, call, lists>>

SpecRun == InitRun /\ [][NextRun]_vars

(* --------------------------------------------------------- properties *)
Range(s) == {s[j] : j \in 1..Len(s)}

\* the worker threads of row r that have entered process_file
Executing(r) == {k \in 1..Len(threads[r]) : threads[r][k].pc # "start"}

\* row r has no live worker and no undelivered signal
Settled(r) == threads[r] = <<>> /\ signals[r] = <<>>

(* C1: at most one worker thread executes a row's process_file at any      *)
(* time, whatever the operator clicks.                                     *)
C1_OneWorkerPerRow == \A r \in Rows : Cardinality(Executing(r)) <= 1

\* the rows of the run-all queue
QueuedRows == Range(win.processing_queue)

\* no two processors of the queue are Running together
NoTwoQueuedRunning ==
    \A a \in QueuedRows : \A b \in QueuedRows :
        a # b => ~(rows[a].running /\ rows[b].running)

(* a step in which process_next_row moves from one entry of the queue to   *)
(* the next one: the entry it leaves is Completed                          *)
QueueAdvancesInOrder ==
    LET idx == win'.current_processing_index IN
    ( /\ idx = win.current_processing_index + 1
      /\ win'.processing_queue = win.processing_queue
      /\ idx >= 1
      /\ idx < Len(win.processing_queue) )
    => RowState(rows'[win.processing_queue[idx]]) = "Completed"

(* C2: during a run-all the queued processors are started in queue order,  *)
(* one at a time: the next entry is started only once the previous one is  *)
(* Completed, and no two processors of the queue are Running together.     *)
C2_QueueSequential == [][QueueAdvancesInOrder /\ NoTwoQueuedRunning']_vars

\* the input table of row r has the column and only matching records
AllMatched(r) ==
    /\ files[r].loadable
    /\ files[r].hasCol
    /\ \A j \in 1..Len(files[r].recs) : files[r].recs[j] = "hit"

(* C3: when Stop is clicked on a Running processor that has finished k of  *)
(* its n records (all matched; k >= 1, so the run is in its record loop)   *)
(* and every save succeeded, the run settles in state Stopped with k or    *)
(* k+1 data rows in the artifact.                                          *)
C3_CancelEndsStopped ==
    \A r \in Rows :
        ( /\ AllMatched(r)
          /\ hist[r].stop_at >= 1
          /\ ~hist[r].save_failed
          /\ Settled(r) )
        => /\ RowState(rows[r]) = "Stopped"
           /\ Len(disk[r].rows) \in {hist[r].stop_at, hist[r].stop_at + 1}

\* the edges of the Row Processor state machine
AllowedEdges ==
    {<<"Idle", "Running">>, <<"Running", "Completed">>, <<"Running", "Stopped">>,
     <<"Running", "Error">>, <<"Completed", "Idle">>, <<"Stopped", "Idle">>,
     <<"Error", "Idle">>}

(* C4: the state of a processor changes only along the edges of the state  *)
(* machine, whatever operation is performed.                               *)
C4_OnlyAllowedEdges ==
    [][\A r \in Rows :
         \/ RowState(rows'[r]) = RowState(rows[r])
         \/ <<RowState(rows[r]), RowState(rows'[r])>> \in AllowedEdges]_vars

(* C5: a Stopped processor does not become Completed or Error, and a       *)
(* Completed or Error processor does not become Stopped, in one step.      *)
C5_Monotonic ==
    [][\A r \in Rows :
         /\ RowState(rows[r]) = "Stopped"
              => RowState(rows'[r]) \notin {"Completed", "Error"}
         /\ RowState(rows[r]) \in {"Completed", "Error"}
              => RowState(rows'[r]) # "Stopped"]_vars

\* the step is the operator's click on row r's Start button
ManualStart(r) == ClickStart(r)

(* C6: Stop All leaves the queue empty and no processor running; and       *)
(* while Stop All is disabled (from a stop-all to the next start-all) a    *)
(* worker thread is started only by the operator's click on a row's Start, *)
(* never by a deferred process_next_row or a late finished notification.   *)
C6_StopAllHolds ==
    [][ /\ stop_all =>
            /\ win'.processing_queue = <<>>
            /\ \A r \in Rows : ~rows'[r].running
        /\ ~win.stop_all_btn =>
            \A r \in Rows :
                Len(threads'[r]) > Len(threads[r]) => ManualStart(r) ]_vars

(* C6 witness: a start-all was stopped before its deferred                 *)
(* process_next_row fired, and that timer has fired since.                 *)
C6_Witness ==
    /\ win.status_label = "Stopped"
    /\ ~win.stop_all_btn
    /\ timers = 0
    /\ win.current_processing_index = -1

(* C7: the finished notification of a processor that is not in the queue   *)
(* does not move the queue position, starts no worker, and does not report *)
(* overall completion while a queued processor is Running.                 *)
C7_ManualIndependent ==
    [][\A r \in Rows :
         (DeliverFinished(r) /\ r \notin QueuedRows)
         => /\ win'.current_processing_index = win.current_processing_index
            /\ threads' = threads
            /\ ~( /\ win.stop_all_btn
                  /\ ~win'.stop_all_btn
                  /\ \E q \in QueuedRows : rows[q].running )]_vars

\* the steps the threads and the Qt event loop take by themselves
SystemStep ==
    \/ TimerFires
    \/ \E r \in Rows : DeliverFinished(r) \/ DeliverError(r)
    \/ \E r \in Rows : \E k \in 1..Len(threads[r]) :
         \/ ProcessFileBegin(r, k)
         \/ ProcessFileInit(r, k)
         \/ ProcessFileCheck(r, k)
         \/ ProcessFileRecord(r, k)
         \/ ProcessFileFinish(r, k)

(* Run-all with the scheduling the program has: a live thread runs on, a   *)
(* queued signal is delivered and a pending timer fires.  The operator's   *)
(* clicks are not forced.                                                  *)
SpecBatchFair == SpecBatch /\ WF_vars(SystemStep /\ UNCHANGED <<hist, job, call, lists>>)

(* Run-all in which the operator stops rows with their own Stop button and *)
(* never clicks Stop All, with the same scheduling                         *)
NextBatchStop ==
    \/ \E r \in Rows : FileSelected(r, FileOf(r)) /\ UNCHANGED <<hist, job, call, lists>>
    \/ start_all /\ UNCHANGED <<hist, job, call, lists>>
    \/ \E r \in Rows : ClickStop(r) /\ UNCHANGED <<hist, job, call, lists>>
    \/ TimerFires /\ UNCHANGED <<hist, job, call, lists>>
    \/ \E r \in Rows : DeliverFinished(r) /\ UNCHANGED <<hist, job, call, lists>>
    \/ \E r \in Rows : DeliverError(r) /\ UNCHANGED <<hist, job, call, lists>>
    \/ \E r \in Rows : \E k \in 1..Len(threads[r]) :
         ProcessFileBegin(r, k) /\ UNCHANGED <<hist, job, call, lists>>
    \/ \E r \in Rows : \E k \in 1..Len(threads[r]) :
         ProcessFileInit(r, k) /\ UNCHANGED <<hist, job, call, lists>>
    \/ \E r \in Rows : \E k \in 1..Len(threads[r]) :
         ProcessFileCheck(r, k) /\ UNCHANGED <<hist, job, call, lists>>
    \/ \E r \in Rows : \E k \in 1..Len(threads[r]) :
         ProcessFileRecord(r, k) /\ UNCHANGED <<hist, job, call, lists>>
    \/ \E r \in Rows : \E k \in 1..Len(threads[r]) :
         ProcessFileFinish(r, k) /\ UNCHANGED <<hist, job, call, lists>>

SpecBatchStopFair ==
    /\ Init
    /\ [][NextBatchStop]_vars
    /\ WF_vars(SystemStep /\ UNCHANGED <<hist, job, call, lists>>)

(* C40: when a queued processor has been stopped with its own Stop during  *)
(* a run-all, the run-all still comes to an end: Start All becomes         *)
(* available again (a processor that ended in Error aside, which is the    *)
(* case of C8)                                                             *)
C40_RunAllEnds ==
    \A r \in Rows :
        (win.stop_all_btn /\ r \in QueuedRows /\ RowState(rows[r]) = "Stopped")
            ~> (~win.stop_all_btn \/ \E q \in Rows : RowState(rows[q]) = "Error")

(* C8: when a queued processor is in Error during a run-all, the run-all   *)
(* eventually ends (overall completion is reported, Stop All aside).       *)
C8_ErrorDoesNotStall ==
    \A r \in Rows :
        (win.stop_all_btn /\ r \in QueuedRows /\ RowState(rows[r]) = "Error")
            ~> ~win.stop_all_btn

\* the input table of row r has the column and no record
EmptyTable(r) == files[r].loadable /\ files[r].hasCol /\ files[r].recs = <<>>

\* the artifact that holds the header row only
HeaderOnly == [exists |-> TRUE, rows |-> <<>>]

\* the current run of row r created its output table and ended uncancelled
RunEnded(r) ==
    /\ Settled(r)
    /\ ~rows[r].running
    /\ hist[r].inited
    /\ hist[r].stop_at < 0

MatchedUpTo(df, i) == SelectSeq([j \in 1..i |-> j], LAMBDA j : df[j] = "hit")

(* C10: at every record boundary of a run whose saves all succeeded, the   *)
(* artifact holds exactly the rows of the output table, which are the      *)
(* matched records processed so far, in input order.                       *)
C10_ArtifactTracksTable ==
    \A r \in Rows : \A k \in 1..Len(threads[r]) :
        LET t == threads[r][k] IN
        (t.pc \in {"loop", "finish"} /\ ~hist[r].save_failed)
        => /\ disk[r] = [exists |-> TRUE, rows |-> rows[r].output_df]
           /\ rows[r].output_df = MatchedUpTo(t.df, t.i)

(* C10 witness: a boundary after an unmatched and then a matched record.   *)
C10_Witness ==
    \E r \in Rows : \E k \in 1..Len(threads[r]) :
        /\ threads[r][k].pc = "loop"
        /\ threads[r][k].i = 2
        /\ threads[r][k].df[1] = "miss"
        /\ rows[r].output_df = <<2>>
        /\ ~hist[r].save_failed

\* worker k of row r takes a step of process_file
WorkerSteps(r, k) ==
    /\ Len(threads'[r]) = Len(threads[r])
    /\ threads'[r][k] # threads[r][k]

MaxAlts == 3       \* entries of the plugin's prefix list

\* the prefixes of the plugin's default list
Prefixes == {"605", "123", "456"}

\* the prefix lists the operator can configure
PrefixLists == UNION {[1..n -> Prefixes] : n \in 0..MaxAlts}

\* the titles a fetch returns: a product's, or one that tells "not found"
Titles == {"Griddle X", "Title not found", "Item Not Found"}

\* title == "Title not found" or "not found" in title.lower()
NotFound(title) == title \in {"Title not found", "Item Not Found"}

\* a catalog site: the title of the page each prefix leads to
Sites == [Prefixes -> Titles]

(* the result of the row's own scrape_katom; via stands for the page the   *)
(* description, specs, table and video links of the result come from       *)
original_scrape_katom(site, prefix) == [title |-> site[prefix], via |-> prefix]

\* an alternates loop that tries the original prefix again
TryAlternates_NoSkip(site, prefix, prefixes, k, first, calls) ==
    LET RECURSIVE Go(_, _)
        Go(j, cs) ==
            IF j > Len(prefixes)
            THEN [result |-> first, calls |-> cs]
            ELSE LET alt == original_scrape_katom(site, prefixes[j]) IN
                 IF ~NotFound(alt.title)
                 THEN [result |-> alt, calls |-> Append(cs, prefixes[j])]
                 ELSE Go(j + 1, Append(cs, prefixes[j]))
    IN Go(k, calls)

\* an alternates loop that returns the result of its last attempt
TryAlternates_ReturnsLast(site, prefix, prefixes, k, first, calls) ==
    LET RECURSIVE Go(_, _, _)
        Go(j, last, cs) ==
            IF j > Len(prefixes)
            THEN [result |-> last, calls |-> cs]
            ELSE IF prefixes[j] = prefix
            THEN Go(j + 1, last, cs)
            ELSE LET alt == original_scrape_katom(site, prefixes[j]) IN
                 IF ~NotFound(alt.title)
                 THEN [result |-> alt, calls |-> Append(cs, prefixes[j])]
                 ELSE Go(j + 1, alt, Append(cs, prefixes[j]))
    IN Go(k, first, calls)

(* the loop over the alternate prefixes from entry k on: first is the      *)
(* result of the primary attempt, calls the prefixes fetched so far        *)
RECURSIVE TryAlternates(_, _, _, _, _, _)
TryAlternates(site, prefix, prefixes, k, first, calls) ==
    IF k > Len(prefixes)
    THEN [result |-> first, calls |-> calls]
    ELSE IF prefixes[k] = prefix
    THEN TryAlternates(site, prefix, prefixes, k + 1, first, calls)
    ELSE LET alt == original_scrape_katom(site, prefixes[k]) IN
         IF ~NotFound(alt.title)
         THEN [result |-> alt, calls |-> Append(calls, prefixes[k])]
         ELSE TryAlternates(site, prefix, prefixes, k + 1, first,
                            Append(calls, prefixes[k]))

\* enhanced_scrape_katom: the result returned and the prefixes fetched
enhanced_scrape_katom(site, prefix, prefixes) ==
    LET first == original_scrape_katom(site, prefix) IN
    IF NotFound(first.title)
    THEN TryAlternates(site, prefix, prefixes, 1, first, <<prefix>>)
    ELSE [result |-> first, calls |-> <<prefix>>]

\* an update_status.emit of the plugin, and a call of the row's own fetch
StatusEvent(text, prefix) == [ev |-> "status", text |-> text, prefix |-> prefix]
FetchEvent(prefix) == [ev |-> "fetch", text |-> "", prefix |-> prefix]

(* what the loop over the alternate prefixes emits and fetches, in order,  *)
(* from entry k on                                                         *)
RECURSIVE AlternatesTrace(_, _, _, _)
AlternatesTrace(site, prefix, prefixes, k) ==
    IF k > Len(prefixes)
    THEN <<>>
    ELSE IF prefixes[k] = prefix
    THEN AlternatesTrace(site, prefix, prefixes, k + 1)
    ELSE LET alt == original_scrape_katom(site, prefixes[k])
             tried == <<StatusEvent("Trying prefix: ", prefixes[k]),
                        FetchEvent(prefixes[k])>>
         IN
         IF ~NotFound(alt.title)
         THEN Append(tried, StatusEvent("Found match with prefix: ", prefixes[k]))
         ELSE tried \o AlternatesTrace(site, prefix, prefixes, k + 1)

\* what enhanced_scrape_katom emits and fetches, in order
enhanced_trace(site, prefix, prefixes) ==
    LET first == original_scrape_katom(site, prefix) IN
    IF NotFound(first.title)
    THEN <<FetchEvent(prefix),
           StatusEvent("Primary prefix failed, trying alternatives...", prefix)>>
         \o AlternatesTrace(site, prefix, prefixes, 1)
    ELSE <<FetchEvent(prefix)>>

\* every other part of the program stands still
RestIdle ==
    UNCHANGED <<rows, threads, signals, disk, win, timers, files, disk_ok, hist, lists>>

\* a call of enhanced_scrape_katom is about to be made
InitRetry ==
    /\ Start
    /\ files \in [Rows -> BatchFiles]
    /\ job = NoJob
    /\ lists = NoLists
    /\ \E site \in Sites : \E prefix \in Prefixes : \E prefixes \in PrefixLists :
         call = [fn |-> "enhanced_scrape_katom", site |-> site, prefix |-> prefix,
                 prefixes |-> prefixes, done |-> FALSE,
                 result |-> original_scrape_katom(site, prefix), calls |-> <<>>,
                 trace |-> <<>>]

\* the call is made and returns
CallRetry ==
    /\ call.fn = "enhanced_scrape_katom"
    /\ ~call.done
    /\ LET ret == enhanced_scrape_katom(call.site, call.prefix, call.prefixes) IN
       call' = [call EXCEPT !.done = TRUE, !.result = ret.result, !.calls = ret.calls,
                            !.trace = enhanced_trace(call.site, call.prefix,
                                                     call.prefixes)]
    /\ UNCHANGED job
    /\ RestIdle

NextRetry == CallRetry

SpecRetry == InitRetry /\ [][NextRetry]_vars

\* the alternates of a call: the configured list without the primary prefix
Alternates == SelectSeq(call.prefixes, LAMBDA a : a # call.prefix)

\* the alternates tried: up to the first that is found, or all of them
Tried ==
    LET hits == {j \in 1..Len(Alternates) : ~NotFound(call.site[Alternates[j]])} IN
    IF hits = {}
    THEN Len(Alternates)
    ELSE CHOOSE j \in hits : \A h \in hits : j <= h

(* C15: the primary prefix is fetched first; if its result tells "not      *)
(* found" the alternates are fetched in configured order, the primary      *)
(* prefix skipped, up to the first result that is found, which is          *)
(* returned; a primary result that is found is returned with no alternate  *)
(* fetched.                                                                *)
C15_RetryOrder ==
    (call.fn = "enhanced_scrape_katom" /\ call.done)
    => IF ~NotFound(call.site[call.prefix])
       THEN /\ call.calls = <<call.prefix>>
            /\ call.result = original_scrape_katom(call.site, call.prefix)
       ELSE /\ call.calls = <<call.prefix>> \o SubSeq(Alternates, 1, Tried)
            /\ (Tried > 0 /\ ~NotFound(call.site[Alternates[Tried]]))
               => call.result = original_scrape_katom(call.site, Alternates[Tried])

(* C15 witness: the list starts with the primary prefix, which is skipped; *)
(* the next entry fails and the third is found.                            *)
C15_Witness ==
    /\ call.fn = "enhanced_scrape_katom"
    /\ call.done
    /\ Len(call.prefixes) = 3
    /\ call.prefixes[1] = call.prefix
    /\ call.calls = <<call.prefix, call.prefixes[2], call.prefixes[3]>>
    /\ ~NotFound(call.result.title)

\* every attempt of the call told "not found", and an alternate was tried
AllFailed ==
    /\ call.fn = "enhanced_scrape_katom"
    /\ call.done
    /\ Len(call.calls) > 1
    /\ \A j \in 1..Len(call.calls) : NotFound(call.site[call.calls[j]])

\* the positions of the trace that hold the fetch of an alternate prefix
AlternateAttempts ==
    {p \in 2..Len(call.trace) : call.trace[p].ev = "fetch"}

(* C33: every fetch of an alternate prefix has a status notification right *)
(* before it and a status notification right after it, whether the fetch   *)
(* found the product or not; and the fetches of the trace are the calls of *)
(* the retry                                                               *)
C33_StatusAroundAttempts ==
    (call.fn = "enhanced_scrape_katom" /\ call.done) =>
        /\ \A p \in AlternateAttempts :
              /\ call.trace[p - 1].ev = "status"
              /\ p < Len(call.trace)
              /\ call.trace[p + 1].ev = "status"
        /\ SelectSeq(call.trace, LAMBDA e : e.ev = "fetch")
             = [j \in 1..Len(call.calls) |-> FetchEvent(call.calls[j])]

(* C16 as stated: when every attempt fails, the result returned is the     *)
(* result of the last attempt made.                                        *)
C16_ReturnsLastAttempt ==
    AllFailed
    => call.result = original_scrape_katom(call.site, call.calls[Len(call.calls)])

(* C16 amended: when every attempt fails, the result returned is the       *)
(* result of the first attempt, made with the primary prefix.              *)
C16_ReturnsPrimaryAttempt ==
    AllFailed => call.result = original_scrape_katom(call.site, call.prefix)

(* C16 witness: the primary prefix and two alternates failed.              *)
C16_Witness == AllFailed /\ Len(call.calls) = 3

(* ------------------------------------------------ process_weight_value *)
MaxWeightLen == 4  \* characters of a weight string

\* the characters of the weight strings: digits, the dot, a blank, a letter
WeightChars == {"0", "2", ".", " ", "b"}

\* strings are sequences of characters
WeightStrings == UNION {[1..n -> WeightChars] : n \in 0..MaxWeightLen}

DigitChars == <<"0", "1", "2", "3", "4", "5", "6", "7", "8", "9">>

\* \d
IsDigit(c) == \E d \in 1..10 : DigitChars[d] = c

DigitVal(c) == (CHOOSE d \in 1..10 : DigitChars[d] = c) - 1

\* the end of the run of digits that starts at a
DigitsEnd(s, a) ==
    CHOOSE b \in a..Len(s) :
        /\ \A j \in a..b : IsDigit(s[j])
        /\ b = Len(s) \/ ~IsDigit(s[b + 1])

(* re.search(r'(\d+(\.\d+)?)', s): the leftmost number; from = 0 when the  *)
(* string has none, int_to the end of the integer part, to the end of the  *)
(* token                                                                   *)
number_match(s) ==
    LET starts == {j \in 1..Len(s) : IsDigit(s[j])} IN
    IF starts = {}
    THEN [from |-> 0, int_to |-> 0, to |-> 0]
    ELSE LET a == CHOOSE j \in starts : \A h \in starts : j <= h
             b == DigitsEnd(s, a)
         IN
         IF b + 2 <= Len(s) /\ s[b + 1] = "." /\ IsDigit(s[b + 2])
         THEN [from |-> a, int_to |-> b, to |-> DigitsEnd(s, b + 2)]
         ELSE [from |-> a, int_to |-> b, to |-> b]

\* int of the digits s[a..b]
RECURSIVE IntOf(_, _, _)
IntOf(s, a, b) == IF b < a THEN 0 ELSE 10 * IntOf(s, a, b - 1) + DigitVal(s[b])

\* math.ceil(float(token))
CeilOf(s, m) ==
    IntOf(s, m.from, m.int_to)
    + (IF \E j \in (m.int_to + 2)..m.to : s[j] # "0" THEN 1 ELSE 0)

\* str(n) for n >= 0
RECURSIVE StrOf(_)
StrOf(n) ==
    IF n < 10
    THEN <<DigitChars[n + 1]>>
    ELSE Append(StrOf(n \div 10), DigitChars[(n % 10) + 1])

\* str.strip() for blanks
RECURSIVE Strip(_)
Strip(t) ==
    IF t = <<>> THEN t
    ELSE IF Head(t) = " " THEN Strip(Tail(t))
    ELSE IF t[Len(t)] = " " THEN Strip(SubSeq(t, 1, Len(t) - 1))
    ELSE t

\* re.search(r'[^\d.]+$', s): the run of non-digits, non-dots that ends s
units_match(s) ==
    LET tails == {u \in 1..Len(s) : \A j \in u..Len(s) : ~IsDigit(s[j]) /\ s[j] # "."} IN
    IF tails = {}
    THEN <<>>
    ELSE SubSeq(s, CHOOSE u \in tails : \A h \in tails : u <= h, Len(s))

\* the number added to the rounded weight
WeightOffset == 5

process_weight_value(value) ==
    LET m == number_match(value) IN
    IF m.from > 0
    THEN LET final == CeilOf(value, m) + WeightOffset
             units == Strip(units_match(value))
         IN StrOf(final) \o (IF units # <<>> THEN <<" ">> \o units ELSE <<>>)
    ELSE value

\* a call of process_weight_value is about to be made
InitWeight ==
    /\ Start
    /\ files \in [Rows -> BatchFiles]
    /\ job = NoJob
    /\ lists = NoLists
    /\ \E value \in WeightStrings :
         call = [fn |-> "process_weight_value", value |-> value,
                 done |-> FALSE, result |-> <<>>]

\* the call is made and returns
CallWeight ==
    /\ call.fn = "process_weight_value"
    /\ ~call.done
    /\ call' = [call EXCEPT !.done = TRUE, !.result = process_weight_value(call.value)]
    /\ UNCHANGED job
    /\ RestIdle

NextWeight == CallWeight

SpecWeight == InitWeight /\ [][NextWeight]_vars

\* the text of s after its first numeric token, trimmed
TrailingText(s) == Strip(SubSeq(s, number_match(s).to + 1, Len(s)))

\* a unit: text that starts with a letter and holds no digit
IsUnit(u) == u # <<>> /\ u[1] = "b" /\ \A j \in 1..Len(u) : ~IsDigit(u[j])

(* C18: a weight string made of a first numeric token n and an optional    *)
(* trailing unit u is normalised to the text of ceil(n) + 5, followed by   *)
(* a blank and u when there is a unit; a string with no numeric token is   *)
(* returned unchanged.                                                     *)
C18_NormalizeWeight ==
    (call.fn = "process_weight_value" /\ call.done)
    => LET s == call.value
           m == number_match(s)
           u == TrailingText(s)
       IN
       /\ m.from = 0 => call.result = s
       /\ (m.from > 0 /\ u = <<>>)
          => call.result = StrOf(CeilOf(s, m) + WeightOffset)
       /\ (m.from > 0 /\ IsUnit(u))
          => call.result = StrOf(CeilOf(s, m) + WeightOffset) \o <<" ">> \o u

(* -------------------------------------------------- extract_table_data *)
MaxTableRows == 2  \* tr elements of the page's first table
MaxElements == 1   \* elements of each kind the fallback methods look at

(* a tr of the table: "pair" has two td cells or more and a key, "nokey"   *)
(* has the cells and an empty first cell, "short" has fewer than two cells *)
TableRowKinds == {"pair", "nokey", "short"}

\* a page without a table element
NoTable == <<"no table">>

\* the first table of the page, when it has one
TablesOfPage == {NoTable} \cup UNION {[1..n -> TableRowKinds] : n \in 0..MaxTableRows}

(* an element of a fallback method: "pair" yields a key and a value,       *)
(* "nokey" an empty key, "none" lacks the key or value part, or is a text  *)
(* that names no common spec                                               *)
ElementKinds == {"pair", "nokey", "none"}

ElementLists == UNION {[1..n -> ElementKinds] : n \in 0..MaxElements}

\* the rendered page the driver holds
Pages ==
    [table : TablesOfPage, spec_rows : ElementLists, dl : ElementLists,
     elements : {e \in ElementLists : \A j \in 1..Len(e) : e[j] # "nokey"}]

\* the key of the pairs (every pair of a page is given the same key)
SpecKey == "weight"

\* the rows of a list that yield a pair
PairsOf(list) == SelectSeq(list, LAMBDA e : e = "pair")

\* the markup of a table with one tr per entry of list
TableMarkup(list) ==
    <<"<table><tbody>">> \o [j \in 1..Len(list) |-> "<tr>"] \o <<"</tbody></table>">>

\* the first branch: the page's table, re-rendered
FromTable(page) ==
    IF page.table = NoTable
    THEN [specs_dict |-> {}, specs_html |-> <<>>]
    ELSE LET cells == SelectSeq(page.table, LAMBDA row : row # "short") IN
         [specs_dict |-> IF PairsOf(cells) # <<>> THEN {SpecKey} ELSE {},
          specs_html |-> TableMarkup(cells)]

\* the pairs of the first fallback method that finds any
other_specs(page) ==
    IF PairsOf(page.spec_rows) # <<>> THEN PairsOf(page.spec_rows)
    ELSE IF PairsOf(page.dl) # <<>> THEN PairsOf(page.dl)
    ELSE PairsOf(page.elements)

extract_table_data(page) ==
    LET t == FromTable(page) IN
    IF t.specs_html # <<>>
    THEN t
    ELSE LET other == other_specs(page) IN
         [specs_dict |-> IF other # <<>> THEN {SpecKey} ELSE {},
          specs_html |-> IF other # <<>> THEN TableMarkup(other) ELSE <<>>]

\* the strategies in the order of the code
Strategies == <<"table", "spec_rows", "dl", "text">>

\* the pairs a strategy yields on the page, were it run
YieldOf(page, strategy) ==
    IF strategy = "table"
    THEN (IF page.table = NoTable THEN <<>> ELSE PairsOf(page.table))
    ELSE IF strategy = "spec_rows" THEN PairsOf(page.spec_rows)
    ELSE IF strategy = "dl" THEN PairsOf(page.dl)
    ELSE PairsOf(page.elements)

(* the strategies extract_table_data runs on the page: the fallback        *)
(* methods are behind `if not specs_html`, each later one behind           *)
(* `if not other_specs`                                                    *)
strategies_tried(page) ==
    <<"table">> \o
    (IF FromTable(page).specs_html # <<>> THEN <<>>
     ELSE <<"spec_rows">> \o
          (IF PairsOf(page.spec_rows) # <<>> THEN <<>>
           ELSE <<"dl">> \o
                (IF PairsOf(page.dl) # <<>> THEN <<>> ELSE <<"text">>)))

\* a call of extract_table_data is about to be made
InitExtract ==
    /\ Start
    /\ files \in [Rows -> BatchFiles]
    /\ job = NoJob
    /\ lists = NoLists
    /\ \E page \in Pages :
         call = [fn |-> "extract_table_data", page |-> page, done |-> FALSE,
                 result |-> [specs_dict |-> {}, specs_html |-> <<>>],
                 tried |-> <<>>]

\* the call is made and returns
CallExtract ==
    /\ call.fn = "extract_table_data"
    /\ ~call.done
    /\ call' = [call EXCEPT !.done = TRUE, !.result = extract_table_data(call.page),
                            !.tried = strategies_tried(call.page)]
    /\ UNCHANGED job
    /\ RestIdle

NextExtract == CallExtract

SpecExtract == InitExtract /\ [][NextExtract]_vars

(* C20: whenever the specs mapping returned is empty, the table markup     *)
(* returned is the empty string.                                           *)
C20_EmptySpecsEmptyTable ==
    (call.fn = "extract_table_data" /\ call.done /\ call.result.specs_dict = {})
    => call.result.specs_html = <<>>

(* C21: the strategies run in the order table, labeled elements,          *)
(* definition lists, free text, and strategy k+1 runs exactly when the     *)
(* strategies 1..k all yielded no pair                                     *)
C21_StrategyPrecedence ==
    (call.fn = "extract_table_data" /\ call.done) =>
        /\ call.tried = SubSeq(Strategies, 1, Len(call.tried))
        /\ \A k \in 1..3 :
             (k + 1 <= Len(call.tried))
             <=> (\A j \in 1..k : YieldOf(call.page, Strategies[j]) = <<>>)

(* ------------------------------- process_file, statement by statement *)
\* the records of the input table of a run
MaxJobRecords == 2
\* the runs of one row on the same input
MaxRuns == 2

(* the records of the table: "hit" is found under the row's prefix, "alt"  *)
(* under the prefix "123" only, "miss" under no prefix; the fetch of       *)
(* "raise" raises an exception; "blank" has an empty identifier; "maperr"  *)
(* is found like "hit" and the building of its output row raises; "null"   *)
(* has no identifier cell at all (NaN in the loaded table)                 *)
JobKinds == {"hit", "alt", "miss", "raise", "blank", "maperr", "null"}

JobTables == UNION {[1..n -> JobKinds] : n \in 0..MaxJobRecords}

\* the text of the row's prefix input
PrefixInput == "605"

\* config_manager.get("output", "prefix"), the prefix of output file names
ConfigPrefix == "final_"

\* the prefix list of the multi-prefix plugin
DefaultPrefixes == <<"605", "123", "456">>

\* the catalog pages of a record of the given kind
SiteOf(kind) ==
    [p \in Prefixes \cup {ConfigPrefix} |->
        IF (kind \in {"hit", "maperr"} /\ p = PrefixInput) \/ (kind = "alt" /\ p = "123")
        THEN "Griddle X"
        ELSE "Title not found"]

(* str(row_data[model_col]) of record n: the text of the cell, and "nan"   *)
(* for a cell that is NaN                                                  *)
IdOf(df, n) ==
    IF df[n] = "blank" THEN ""
    ELSE IF df[n] = "null" THEN "nan"
    ELSE <<"ABC123HC", n>>

\* the weight a catalog page shows
PageWeight == <<"2", "2", ".", "9", "3", " ", "l", "b", "s">>

\* specs_dict["weight"] of a fetch result: extract_table_data normalises it
ReturnedWeight(res) == process_weight_value(PageWeight)

\* the values a before_process_file hook returns
HookResponses == {"True", "False", "None"}

(* plugin_manager.execute_hook('before_process_file', ...): the responses *)
(* of the plugins, the multi-prefix plugin answering True                   *)
execute_hook(hooks, plugin) == hooks \cup (IF plugin THEN {"True"} ELSE {})

\* a hook check that takes every falsy response for an abort
HookAborts_Falsy(hook_results) == hook_results \cap {"False", "None"} # {}

\* any(result is False for result in hook_results.values())
HookAborts(hook_results) == "False" \in hook_results

\* an output row that carries the weight as it was fetched
OutputRow_RawWeight(model, res) ==
    [model |-> model, title |-> res.title, weight |-> ReturnedWeight(res)]

\* the output row built from a fetch result
OutputRow(model, res) ==
    [model |-> model, title |-> res.title,
     weight |-> process_weight_value(ReturnedWeight(res))]

\* what a first run leaves for the comparison with the second one
NoFirst == [rows |-> <<>>, log |-> <<>>]

\* a run is about to start on a row whose Start was clicked
InitJob ==
    /\ Start
    /\ files \in [Rows -> BatchFiles]
    /\ call = NoCall
    /\ lists = NoLists
    /\ \E hooks \in SUBSET HookResponses : \E cfg \in BOOLEAN : \E plugin \in BOOLEAN :
       \E df \in JobTables : \E hascol \in BOOLEAN :
         job = [pc |-> "start", hooks |-> hooks, cfg |-> cfg, plugin |-> plugin,
                df |-> df, hascol |-> hascol, hooked |-> FALSE,
                row |-> start_processing(file_selected(NewRow, FileOf(1))),
                prefix |-> NoPrefix, patched |-> FALSE, nested |-> 0, i |-> 0,
                res |-> [title |-> "", via |-> ""],
                artifact |-> [exists |-> FALSE, rows |-> <<>>],
                cancelled |-> FALSE, stop_i |-> -1, stop_len |-> -1,
                restarted |-> FALSE, run |-> 1, first |-> NoFirst, log |-> <<>>]

Running == job.pc \notin {"none", "done", "end"}

\* an event of the run is recorded
Log(e) == Append(job.log, e)

\* the file and the prefix are read
JobStart ==
    /\ job.pc = "start"
    /\ job' = [job EXCEPT !.pc = "hook", !.prefix = job.row.prefix_input]
    /\ UNCHANGED call /\ RestIdle

\* a hook of the plugin that wraps scrape_katom on every run
before_process_file_Rewraps(j) ==
    IF j.plugin
    THEN [j EXCEPT !.patched = TRUE, !.nested = @ + 1]
    ELSE j

(* the hook of the multi-prefix plugin: scrape_katom is wrapped unless the *)
(* row has the attribute original_scrape_katom                             *)
before_process_file(j) ==
    IF j.plugin /\ ~j.patched
    THEN [j EXCEPT !.patched = TRUE, !.nested = @ + 1]
    ELSE j

(* the before_process_file hooks, then the table is loaded and searched    *)
(* for the 'Mfr Model' column                                              *)
JobHook ==
    /\ job.pc = "hook"
    /\ LET hook_results == execute_hook(job.hooks, job.plugin)
           j == before_process_file(job)
       IN
       IF HookAborts(hook_results)
       THEN job' = [j EXCEPT !.pc = "done", !.hooked = TRUE,
                             !.log = Log([ev |-> "error",
                                          msg |-> "Processing aborted by plugin"])]
       ELSE IF ~job.hascol
       THEN job' = [j EXCEPT !.pc = "done", !.hooked = TRUE,
                             !.log = Log([ev |-> "error",
                                          msg |-> "Missing 'Mfr Model' column in file"])]
       ELSE job' = [j EXCEPT !.pc = "init", !.hooked = TRUE]
    /\ UNCHANGED call /\ RestIdle

\* a run that leaves the first save to the first matched record
JobInit_SavesLater ==
    /\ job.pc = "init"
    /\ LET row1 == [job.row EXCEPT !.output_df = <<>>,
                                   !.output_path = <<"final", job.row.file_dropdown>>]
           prefix1 == IF job.cfg THEN ConfigPrefix ELSE job.prefix
       IN
       IF Len(job.df) = 0
       THEN job' = [job EXCEPT !.pc = "done", !.row = row1, !.prefix = prefix1,
                               !.log = Log([ev |-> "error",
                                            msg |-> "File contains no data rows"])]
       ELSE job' = [job EXCEPT !.pc = "head", !.row = row1, !.prefix = prefix1,
                               !.log = Log([ev |-> "progress", n |-> 0,
                                            total |-> Len(job.df)])]
    /\ UNCHANGED call /\ RestIdle

\* the output table, the output path and the initial save
JobInit ==
    /\ job.pc = "init"
    /\ \E ok \in BOOLEAN :
       LET row1 == [job.row EXCEPT !.output_df = <<>>,
                                   !.output_path = <<"final", job.row.file_dropdown>>]
           prefix1 == IF job.cfg THEN ConfigPrefix ELSE job.prefix
           saved == [ev |-> "save", n |-> 0, ok |-> ok]
       IN
       IF Len(job.df) = 0
       THEN job' = [job EXCEPT !.pc = "done", !.row = row1, !.prefix = prefix1,
                               !.artifact = save_results(row1, @, ok),
                               !.log = Log(saved) \o
                                       <<[ev |-> "error",
                                          msg |-> "File contains no data rows"]>>]
       ELSE job' = [job EXCEPT !.pc = "head", !.row = row1, !.prefix = prefix1,
                               !.artifact = save_results(row1, @, ok),
                               !.log = Log(saved) \o
                                       <<[ev |-> "progress", n |-> 0,
                                          total |-> Len(job.df)]>>]
    /\ UNCHANGED call /\ RestIdle

\* the head of the for loop and the check of self.running
JobHead ==
    /\ job.pc = "head"
    /\ IF job.i < Len(job.df) /\ job.row.running
       THEN job' = [job EXCEPT !.pc = "ident", !.i = job.i + 1]
       ELSE job' = [job EXCEPT !.pc = "finish"]
    /\ UNCHANGED call /\ RestIdle

(* the identifier of the record is read; `not model or pd.isna(model)`    *)
(* holds of the empty string only, model being a string                    *)
JobIdent ==
    /\ job.pc = "ident"
    /\ IF IdOf(job.df, job.i) = ""
       THEN job' = [job EXCEPT !.pc = "head"]
       ELSE job' = [job EXCEPT !.pc = "fetch"]
    /\ UNCHANGED call /\ RestIdle

\* a fetch whose exception ends the run with an error
JobFetch_Escalates ==
    /\ job.pc = "fetch"
    /\ LET kind == job.df[job.i]
           ret == IF job.nested > 0
                  THEN enhanced_scrape_katom(SiteOf(kind), job.prefix, DefaultPrefixes)
                  ELSE [result |-> original_scrape_katom(SiteOf(kind), job.prefix),
                        calls |-> <<job.prefix>>]
       IN
       IF kind = "raise"
       THEN job' = [job EXCEPT !.pc = "done",
                               !.log = Log([ev |-> "scrape", n |-> job.i,
                                            prefix |-> job.prefix, calls |-> <<>>,
                                            found |-> FALSE, title |-> "",
                                            weight |-> <<>>]) \o
                                       <<[ev |-> "error", msg |-> "fetch failed"]>>]
       ELSE job' = [job EXCEPT
                      !.pc = IF NotFound(ret.result.title) THEN "progress" ELSE "append",
                      !.res = ret.result,
                      !.log = Log([ev |-> "scrape", n |-> job.i, prefix |-> job.prefix,
                                   calls |-> ret.calls,
                                   found |-> ~NotFound(ret.result.title),
                                   title |-> ret.result.title,
                                   weight |-> ReturnedWeight(ret.result)])]
    /\ UNCHANGED call /\ RestIdle

(* self.scrape_katom(model, prefix), and the test of the title. Were the   *)
(* method wrapped a second time, original_scrape_katom would be the        *)
(* wrapper itself and the call would recurse until RecursionError          *)
JobFetch ==
    /\ job.pc = "fetch"
    /\ LET kind == job.df[job.i]
           ret == IF job.nested > 0
                  THEN enhanced_scrape_katom(SiteOf(kind), job.prefix, DefaultPrefixes)
                  ELSE [result |-> original_scrape_katom(SiteOf(kind), job.prefix),
                        calls |-> <<job.prefix>>]
       IN
       IF kind = "raise" \/ job.nested > 1
       THEN job' = [job EXCEPT !.pc = "progress",
                               !.log = Log([ev |-> "scrape", n |-> job.i,
                                            prefix |-> job.prefix, calls |-> <<>>,
                                            found |-> FALSE, title |-> "",
                                            weight |-> <<>>])]
       ELSE job' = [job EXCEPT
                      !.pc = IF NotFound(ret.result.title) THEN "progress" ELSE "append",
                      !.res = ret.result,
                      !.log = Log([ev |-> "scrape", n |-> job.i, prefix |-> job.prefix,
                                   calls |-> ret.calls,
                                   found |-> ~NotFound(ret.result.title),
                                   title |-> ret.result.title,
                                   weight |-> ReturnedWeight(ret.result)])]
    /\ UNCHANGED call /\ RestIdle

\* a run that leaves the save of the output table to the end of the run
JobAppend_NoSave ==
    /\ job.pc = "append"
    /\ IF job.df[job.i] = "maperr"
       THEN job' = [job EXCEPT !.pc = "progress"]
       ELSE job' = [job EXCEPT !.pc = "progress",
                               !.row.output_df =
                                   Append(@, OutputRow(IdOf(job.df, job.i), job.res)),
                               !.log = Log([ev |-> "append", n |-> job.i])]
    /\ UNCHANGED call /\ RestIdle

(* the output row is built and appended to the output table; an error     *)
(* raised on the way is caught by the except clause of the record          *)
JobAppend ==
    /\ job.pc = "append"
    /\ IF job.df[job.i] = "maperr"
       THEN job' = [job EXCEPT !.pc = "progress"]
       ELSE job' = [job EXCEPT !.pc = "save",
                               !.row.output_df =
                                   Append(@, OutputRow(IdOf(job.df, job.i), job.res)),
                               !.log = Log([ev |-> "append", n |-> job.i])]
    /\ UNCHANGED call /\ RestIdle

\* save_results after the row
JobSave ==
    /\ job.pc = "save"
    /\ \E ok \in BOOLEAN :
         job' = [job EXCEPT !.pc = "progress",
                            !.artifact = save_results(job.row, @, ok),
                            !.log = Log([ev |-> "save", n |-> job.i, ok |-> ok])]
    /\ UNCHANGED call /\ RestIdle

\* update_progress.emit(current_row, total_rows) and the delay
JobProgress ==
    /\ job.pc = "progress"
    /\ job' = [job EXCEPT !.pc = "head",
                          !.log = Log([ev |-> "progress", n |-> job.i,
                                       total |-> Len(job.df)])]
    /\ UNCHANGED call /\ RestIdle

\* after the loop: finished.emit() when the row is still running
JobFinish ==
    /\ job.pc = "finish"
    /\ IF job.row.running
       THEN job' = [job EXCEPT !.pc = "done",
                               !.log = Log([ev |-> "after_hook"]) \o
                                       <<[ev |-> "finished"]>>]
       ELSE job' = [job EXCEPT !.pc = "done"]
    /\ UNCHANGED call /\ RestIdle

\* the GUI thread handles the signal the run ended with
JobDeliver ==
    /\ job.pc = "done"
    /\ LET last == IF job.log = <<>> THEN "none" ELSE job.log[Len(job.log)].ev IN
       job' = [job EXCEPT !.pc = "end",
                          !.row = IF last = "finished" THEN on_processing_finished(@)
                                  ELSE IF last = "error" THEN on_processing_error(@)
                                  ELSE @]
    /\ UNCHANGED call /\ RestIdle

\* the operator clicks the row's Stop during the run
JobCancel ==
    /\ Running
    /\ job.row.running
    /\ job' = [job EXCEPT !.row = stop_processing(@), !.cancelled = TRUE,
                          !.stop_i = IF job.cancelled THEN @ ELSE job.i,
                          !.stop_len = IF job.cancelled THEN @ ELSE Len(job.log)]
    /\ UNCHANGED call /\ RestIdle

(* the operator clicks the row's Start after a Stop while the worker of    *)
(* the stopped run is still inside process_file; the thread that           *)
(* start_processing creates is not followed                                *)
JobRestart ==
    /\ Running
    /\ job.row.start_btn
    /\ CanStart(job.row)
    /\ job' = [job EXCEPT !.row = start_processing(@), !.restarted = TRUE]
    /\ UNCHANGED call /\ RestIdle

(* the operator clicks the row's Start after the run has completed: the    *)
(* next run of the row on the same input                                   *)
JobAgain ==
    /\ job.pc = "end"
    /\ job.run < MaxRuns
    /\ ~job.cancelled
    /\ job.log # <<>>
    /\ job.log[Len(job.log)].ev = "finished"
    /\ CanStart(job.row)
    /\ job' = [job EXCEPT !.pc = "start", !.row = start_processing(@),
                          !.run = @ + 1, !.hooked = FALSE,
                          !.first = [rows |-> job.row.output_df, log |-> job.log],
                          !.prefix = NoPrefix, !.i = 0,
                          !.res = [title |-> "", via |-> ""],
                          !.log = <<>>]
    /\ UNCHANGED call /\ RestIdle

NextJob ==
    \/ JobStart
    \/ JobHook
    \/ JobInit
    \/ JobHead
    \/ JobIdent
    \/ JobFetch
    \/ JobAppend
    \/ JobSave
    \/ JobProgress
    \/ JobFinish
    \/ JobDeliver
    \/ JobCancel

SpecJob == InitJob /\ [][NextJob]_vars

\* runs of a row that is started again once a run has completed
NextRerun ==
    \/ JobStart
    \/ JobHook
    \/ JobInit
    \/ JobHead
    \/ JobIdent
    \/ JobFetch
    \/ JobAppend
    \/ JobSave
    \/ JobProgress
    \/ JobFinish
    \/ JobDeliver
    \/ JobCancel
    \/ JobAgain

SpecRerun == InitJob /\ [][NextRerun]_vars

\* runs of a row whose Start may be clicked again after a Stop
NextStop ==
    \/ JobStart
    \/ JobHook
    \/ JobInit
    \/ JobHead
    \/ JobIdent
    \/ JobFetch
    \/ JobAppend
    \/ JobSave
    \/ JobProgress
    \/ JobFinish
    \/ JobDeliver
    \/ JobCancel
    \/ JobRestart

SpecStop == InitJob /\ [][NextStop]_vars

\* the calls of scrape_katom a log holds, in order
ScrapesOf(log) == SelectSeq(log, LAMBDA e : e.ev = "scrape")

\* a later run of the row has completed; job.first holds the run before it
RerunCompleted ==
    /\ job.run > 1
    /\ job.pc = "end"
    /\ ~job.cancelled
    /\ job.log # <<>>
    /\ job.log[Len(job.log)].ev = "finished"

(* C27: when a row has run to completion twice on the same input table and *)
(* the same catalog, the second run leaves the same sequence of output     *)
(* rows as the first; the second run enters its loop with an empty output  *)
(* table, and each of its fetches makes the same attempts as in the first  *)
(* run: the retry wrapper is installed once, not once more per run         *)
C27_RerunSameRows ==
    /\ (job.run > 1 /\ job.pc = "head" /\ job.i = 0) => job.row.output_df = <<>>
    /\ RerunCompleted =>
         /\ job.row.output_df = job.first.rows
         /\ ScrapesOf(job.log) = ScrapesOf(job.first.log)

(* both runs have completed with the plugin installed, on a table with a   *)
(* record found under an alternate prefix and one that raises              *)
C27_Witness ==
    /\ RerunCompleted
    /\ job.run = 2
    /\ job.plugin
    /\ job.df = <<"alt", "raise">>
    /\ Len(job.row.output_df) = 1
    /\ job.first.rows # <<>>

\* the positions of the log that hold a call of scrape_katom
Scrapes == {p \in 1..Len(job.log) : job.log[p].ev = "scrape"}

\* the positions of the log that hold a call of the after_process_file hooks
AfterHooks == {p \in 1..Len(job.log) : job.log[p].ev = "after_hook"}

(* C30: the after_process_file hooks are called once in a run that         *)
(* completes, after the fetch, the row and the save of every record and    *)
(* right before finished is emitted, and finished is never emitted without *)
(* them; they are not called in a run that was cancelled or that emitted   *)
(* an error                                                                *)
C30_AfterHookOnce ==
    /\ Cardinality(AfterHooks) <= 1
    /\ \A p \in AfterHooks :
         /\ p < Len(job.log) /\ job.log[p + 1].ev = "finished"
         /\ \A q \in 1..Len(job.log) :
              job.log[q].ev \in {"scrape", "append", "save", "progress"} => q < p
         /\ ~job.cancelled
         /\ \A q \in 1..Len(job.log) : job.log[q].ev # "error"
    /\ \A p \in 1..Len(job.log) :
         job.log[p].ev = "finished" => p > 1 /\ (p - 1) \in AfterHooks

\* the positions of the log that hold the save made before the loop
InitialSaves == {p \in 1..Len(job.log) : job.log[p].ev = "save" /\ job.log[p].n = 0}

\* the error of a table without the identifier column
MissingColumn == [ev |-> "error", msg |-> "Missing 'Mfr Model' column in file"]

(* C31 as claimed: once a run is past the hooks and the column search, the *)
(* output artifact exists, at every later point of the run                 *)
C31_ArtifactAlwaysExists ==
    (job.hooked /\ job.hascol /\ ~HookAborts(execute_hook(job.hooks, job.plugin))
       /\ job.pc \notin {"hook", "init"}) => job.artifact.exists

(* C31: in a run that is past the hooks and the column search, the save of *)
(* the header-only output table is made before the first fetch; when that  *)
(* save succeeded the artifact exists at every later point of the run, and *)
(* it holds no row until a row has been appended                           *)
C31_ArtifactBeforeFetch ==
    /\ \A p \in Scrapes : \E q \in InitialSaves : q < p
    /\ (job.hooked /\ job.hascol /\ ~HookAborts(execute_hook(job.hooks, job.plugin))
          /\ job.pc \notin {"hook", "init"}) => InitialSaves # {}
    /\ (\E q \in InitialSaves : job.log[q].ok) =>
          /\ job.artifact.exists
          /\ job.row.output_df = <<>> => job.artifact.rows = <<>>

(* a run that was cancelled during its first record, after the initial     *)
(* save had succeeded, and whose fetch found nothing: the artifact is      *)
(* there, header only                                                      *)
C31_Witness ==
    /\ job.pc = "end"
    /\ job.cancelled
    /\ job.stop_i = 1
    /\ Scrapes # {}
    /\ \E q \in InitialSaves : job.log[q].ok
    /\ job.artifact.exists
    /\ job.artifact.rows = <<>>

(* C32: a table without the 'Mfr Model' column ends the run with the       *)
(* missing-column error before any hook was called, any artifact saved or  *)
(* any record fetched                                                      *)
C32_ColumnBeforeHook ==
    (\E p \in 1..Len(job.log) : job.log[p] = MissingColumn) =>
        /\ ~job.hooked
        /\ ~job.artifact.exists
        /\ InitialSaves = {}
        /\ Scrapes = {}

(* C29: once Stop was clicked during a run, the worker of that run begins  *)
(* no fetch for a record after the one that was in flight at the click and *)
(* works on no later record, whatever the operator does next, a new Start  *)
(* of the row included                                                     *)
C29_CancelNeverLost ==
    job.cancelled =>
        /\ \A p \in Scrapes : p > job.stop_len => job.log[p].n <= job.stop_i
        /\ job.i <= job.stop_i

Progress == SelectSeq(job.log, LAMBDA e : e.ev = "progress")

\* the run ended with finished.emit() and its Stop was never clicked
CompletedRun ==
    /\ job.pc \in {"done", "end"}
    /\ ~job.cancelled
    /\ job.log # <<>>
    /\ job.log[Len(job.log)].ev = "finished"

(* C13: a run that is not cancelled emits the progress (i, total) after    *)
(* every record i = 1..total, whatever happened to the record, and the     *)
(* last progress before the completion is (total, total)                   *)
C13_ProgressAfterEveryRecord ==
    CompletedRun =>
        LET total == Len(job.df) IN
        /\ \A i \in 1..total :
             \E p \in 1..Len(Progress) : Progress[p].n = i /\ Progress[p].total = total
        /\ Progress[Len(Progress)].n = total

\* the error the run emits when a hook aborts it
AbortError == [ev |-> "error", msg |-> "Processing aborted by plugin"]

\* the abort error has been emitted
Aborted == \E p \in 1..Len(job.log) : job.log[p] = AbortError

(* C14: when some before_process_file hook returns exactly False the run   *)
(* emits the abort error and nothing else: no record is fetched, no row is *)
(* appended, nothing is saved, and the row ends in Error; when every       *)
(* response is True or None, or there is no response, no abort is emitted  *)
C14_HookAbort ==
    /\ ("False" \in job.hooks /\ job.pc \in {"done", "end"}) =>
          /\ job.log = <<AbortError>>
          /\ Scrapes = {}
          /\ job.row.output_df = <<>>
          /\ ~job.artifact.exists
          /\ job.pc = "end" => RowState(job.row) = "Error"
    /\ "False" \notin job.hooks => ~Aborted

\* a run aborted by one hook while another hook returned None
C14_Witness ==
    /\ job.hooks = {"False", "None"}
    /\ job.pc = "end"
    /\ Aborted
    /\ Len(job.df) > 0

\* a run that went through although a hook returned None
C14_WitnessNone ==
    /\ "None" \in job.hooks
    /\ "False" \notin job.hooks
    /\ Scrapes # {}

(* the fetches whose primary prefix gave the sentinel title and whose    *)
(* alternate prefix gave a title, and whose row has been appended          *)
AltMatches ==
    {p \in Scrapes :
        /\ job.log[p].found
        /\ Len(job.log[p].calls) > 1
        /\ \E a \in p+1..Len(job.log) :
             job.log[a] = [ev |-> "append", n |-> job.log[p].n]}

\* the output rows of record n
RowsOf(n) ==
    {k \in 1..Len(job.row.output_df) : job.row.output_df[k].model = IdOf(job.df, n)}

(* C19: a record whose fetch with the primary prefix returns the sentinel  *)
(* title and whose fetch with an alternate prefix returns the title T and  *)
(* the weight w gets exactly one output row: its identifier is the         *)
(* identifier of the input record as it stands there, its title is T and   *)
(* its Weight is process_weight_value(w); "22.93 lbs" becomes "28 lbs"     *)
C19_EndToEnd ==
    \A p \in AltMatches :
        LET e == job.log[p] IN
        /\ Cardinality(RowsOf(e.n)) = 1
        /\ \A k \in RowsOf(e.n) :
             /\ job.row.output_df[k].model = <<"ABC123HC", e.n>>
             /\ job.row.output_df[k].title = e.title
             /\ job.row.output_df[k].weight = process_weight_value(e.weight)
        /\ process_weight_value(PageWeight) = <<"2", "8", " ", "l", "b", "s">>

\* a run ended with the row of a record found under the alternate "123"
C19_Witness ==
    /\ job.pc = "end"
    /\ \E p \in AltMatches :
         /\ job.log[p].calls = <<PrefixInput, "123">>
         /\ job.log[p].title = "Griddle X"
    /\ Len(job.row.output_df) = 1

\* the records of the table that have no identifier, or an empty one
Unidentified == {n \in 1..Len(job.df) : job.df[n] \in {"blank", "null"}}

(* C39: for a record whose identifier is missing or empty no fetch is      *)
(* issued and no output row is produced, and the run goes on to the next   *)
(* record                                                                  *)
C39_SkipsUnidentified ==
    /\ \A p \in Scrapes : job.log[p].n \notin Unidentified
    /\ \A k \in 1..Len(job.row.output_df) :
         \A n \in Unidentified : job.row.output_df[k].model # IdOf(job.df, n)
    /\ (job.pc = "fetch" \/ job.pc = "append") => job.i \notin Unidentified

(* C38: the weight in the Weight column of an output row is the weight of *)
(* the page normalised once, ceil(n) + 5 with the unit, which is also the   *)
(* weight the specs table in the row's description shows                    *)
C38_WeightNormalizedOnce ==
    \A k \in 1..Len(job.row.output_df) :
        /\ job.row.output_df[k].weight = process_weight_value(PageWeight)
        /\ job.row.output_df[k].weight = ReturnedWeight(job.res)

(* C17: the first fetch of every record is made with the prefix of the    *)
(* row's prefix input, with and without a configuration manager            *)
C17_FirstFetchUsesPrimaryPrefix ==
    \A p \in Scrapes : job.log[p].prefix = job.row.prefix_input

(* ------------------------------------------------------- video links *)
\* the source elements with a video of a page
MaxSources == 6
\* the source elements inside video elements, and the matches in the page source
MaxFallback == 1

\* the Video Link columns of an output row
VideoColumns == 5

\* the src attributes of source elements: absolute URLs, no white space
SrcUrls == {<<"1">>, <<"2">>, <<"3">>, <<"4">>, <<"5">>, <<"6">>}

(* the matches of https?://[^"']+\.mp4 in the page source: the class       *)
(* excludes the quotes only, so a match may run over a line break          *)
MatchUrls == {<<"1">>, <<"1", "\n", "1">>, <<"1", "\n", "2">>}

SeqsUpTo(S, n) == UNION {[1..k -> S] : k \in 0..n}

\* what the driver finds on a product page
VideoPages ==
    [sources : SeqsUpTo(SrcUrls, MaxSources),
     videos : SeqsUpTo({<<"1">>}, MaxFallback),
     matches : SeqsUpTo(MatchUrls, MaxFallback)]

\* needle in hay, for strings
Contains(hay, needle) ==
    \E i \in 0..(Len(hay) - Len(needle)) : SubSeq(hay, i + 1, i + Len(needle)) = needle

\* video_links after `if src and src not in video_links: video_links += src + "\n"`
RECURSIVE AddLinks(_, _)
AddLinks(video_links, found) ==
    IF found = <<>> THEN video_links
    ELSE LET src == Head(found) IN
         AddLinks(IF src # <<>> /\ ~Contains(video_links, src)
                  THEN video_links \o src \o <<"\n">>
                  ELSE video_links,
                  Tail(found))

\* the video links part of scrape_katom
extract_video_links(page) ==
    LET a == AddLinks(<<>>, page.sources)
        b == IF a = <<>> THEN AddLinks(a, page.videos) ELSE a
    IN IF b = <<>> THEN AddLinks(b, page.matches) ELSE b

\* [link.strip() for link in video_links.strip().split('\n') if link.strip()]
RECURSIVE SplitLines(_, _)
SplitLines(text, line) ==
    IF text = <<>> THEN (IF line = <<>> THEN <<>> ELSE <<line>>)
    ELSE IF Head(text) = "\n"
         THEN (IF line = <<>> THEN <<>> ELSE <<line>>) \o SplitLines(Tail(text), <<>>)
         ELSE SplitLines(Tail(text), Append(line, Head(text)))

\* the Video Link 1..5 cells of the output row
video_columns(video_links) ==
    LET video_list == SplitLines(video_links, <<>>) IN
    [i \in 1..VideoColumns |-> IF i <= Len(video_list) THEN video_list[i] ELSE <<>>]

\* a product page is about to be searched for videos
InitMedia ==
    /\ Start
    /\ files \in [Rows -> BatchFiles]
    /\ job = NoJob
    /\ lists = NoLists
    /\ \E page \in VideoPages :
         call = [fn |-> "video_links", page |-> page, done |-> FALSE,
                 result |-> <<>>, columns |-> <<>>]

\* the links are extracted and mapped to the columns of the row
CallMedia ==
    /\ call.fn = "video_links"
    /\ ~call.done
    /\ call' = [call EXCEPT !.done = TRUE,
                            !.result = extract_video_links(call.page),
                            !.columns = video_columns(extract_video_links(call.page))]
    /\ UNCHANGED job
    /\ RestIdle

NextMedia == CallMedia

SpecMedia == InitMedia /\ [][NextMedia]_vars

\* the elements of a tier of a page with URLs that share a prefix
MaxTier == 2

(* src attributes of which one is part of another; an element may have no  *)
(* src at all                                                              *)
TierUrls == {<<>>, <<"1">>, <<"1", "2">>}

\* pages whose three tiers hold such URLs
TierPages ==
    [sources : SeqsUpTo(TierUrls, MaxTier),
     videos : SeqsUpTo(TierUrls, MaxTier),
     matches : SeqsUpTo(TierUrls \ {<<>>}, MaxTier)]

\* such a page is about to be searched for videos
InitTiers ==
    /\ Start
    /\ files \in [Rows -> BatchFiles]
    /\ job = NoJob
    /\ lists = NoLists
    /\ \E page \in TierPages :
         call = [fn |-> "video_links", page |-> page, done |-> FALSE,
                 result |-> <<>>, columns |-> <<>>]

SpecTiers == InitTiers /\ [][NextMedia]_vars

\* the URLs of a tier in discovery order, each kept once
RECURSIVE Distinct(_, _)
Distinct(found, kept) ==
    IF found = <<>> THEN kept
    ELSE Distinct(Tail(found),
                  IF Head(found) = <<>> \/ Head(found) \in Range(kept)
                  THEN kept
                  ELSE Append(kept, Head(found)))

(* C35: the result holds the links of the first tier that found one, the   *)
(* source elements, then the source elements inside video elements, then   *)
(* the matches in the page source; of that tier every distinct URL once,   *)
(* in discovery order, also when one URL is part of another                *)
C35_TiersExactDedup ==
    (call.fn = "video_links" /\ call.done) =>
        LET a == Distinct(call.page.sources, <<>>)
            b == Distinct(call.page.videos, <<>>)
            c == Distinct(call.page.matches, <<>>)
        IN SplitLines(call.result, <<>>)
             = IF a # <<>> THEN a ELSE IF b # <<>> THEN b ELSE c

\* the media links of the extraction result
MediaLinks == SplitLines(call.result, <<>>)

(* C22: the media links of a result hold no URL twice, and the row holds   *)
(* the first 5 of them in Video Link 1..5, the other columns being empty   *)
C22_MediaLinks ==
    (call.fn = "video_links" /\ call.done) =>
        /\ \A i \in 1..Len(MediaLinks) : \A j \in 1..Len(MediaLinks) :
             MediaLinks[i] = MediaLinks[j] => i = j
        /\ Len(call.columns) = 5
        /\ \A i \in 1..5 :
             call.columns[i] = IF i <= Len(MediaLinks) THEN MediaLinks[i] ELSE <<>>

(* ------------------------------------- scrape_katom, statement by statement *)
\* the worker threads that call scrape_katom at the same time
MaxFetchers == 2

Fetchers == 1..MaxFetchers

\* the locals of a call: nothing is acquired and every field is at its default
NewFetch ==
    [pc |-> "idle", driver |-> "none", item_found |-> FALSE, failed |-> {},
     title |-> "default", description |-> "default", specs |-> "default",
     video |-> "default"]

\* the calls that have begun and have neither returned nor raised
InFlight == {f \in Fetchers : call.f[f].pc \notin {"idle", "returned", "raised"}}

InitFetch ==
    /\ Start
    /\ files \in [Rows -> BatchFiles]
    /\ job = NoJob
    /\ lists = NoLists
    /\ call = [fn |-> "scrape_katom", f |-> [f \in Fetchers |-> NewFetch], open |-> 0]

\* the step of fetcher f leaves its locals as loc and `open` sessions open
FetchStep(f, loc, open) ==
    /\ call' = [call EXCEPT !.f[f] = loc, !.open = open]
    /\ UNCHANGED job
    /\ RestIdle

\* a worker calls scrape_katom; the locals are initialised
FetchCall(f) ==
    /\ call.fn = "scrape_katom"
    /\ call.f[f].pc \in {"idle", "returned", "raised"}
    /\ FetchStep(f, [NewFetch EXCEPT !.pc = "options"], call.open)

\* the URL and the options; UserAgent().random is outside the try block
FetchOptions(f) ==
    /\ call.fn = "scrape_katom"
    /\ call.f[f].pc = "options"
    /\ \E ok \in BOOLEAN :
         FetchStep(f, [call.f[f] EXCEPT !.pc = IF ok THEN "acquire" ELSE "raised"],
                   call.open)

\* driver = webdriver.Chrome(options=options)
FetchAcquire(f) ==
    /\ call.fn = "scrape_katom"
    /\ call.f[f].pc = "acquire"
    /\ \/ FetchStep(f, [call.f[f] EXCEPT !.pc = "navigate", !.driver = "open"],
                    call.open + 1)
       \/ FetchStep(f, [call.f[f] EXCEPT !.pc = "finally",
                                         !.failed = @ \cup {"acquire"}],
                    call.open)

\* driver.get(url) and the check of the page title for 404
FetchNavigate(f) ==
    /\ call.fn = "scrape_katom"
    /\ call.f[f].pc = "navigate"
    /\ \/ FetchStep(f, [call.f[f] EXCEPT !.pc = "title"], call.open)
       \/ FetchStep(f, [call.f[f] EXCEPT !.pc = "finally",
                                         !.failed = @ \cup {"navigate"}],
                    call.open)
       \/ \* 404: driver.quit() and return, through the finally block
          FetchStep(f, [call.f[f] EXCEPT !.pc = "finally", !.driver = "closed"],
                    call.open - 1)

(* the h1 of the product; a timeout and any other error are caught; the    *)
(* text of the element is assigned to title before it is tested            *)
FetchTitle(f) ==
    /\ call.fn = "scrape_katom"
    /\ call.f[f].pc = "title"
    /\ \/ FetchStep(f, [call.f[f] EXCEPT !.pc = "description", !.title = "found",
                                         !.item_found = TRUE],
                    call.open)
       \/ FetchStep(f, [call.f[f] EXCEPT !.pc = "finally", !.title = "empty"],
                    call.open)
       \/ FetchStep(f, [call.f[f] EXCEPT !.pc = "finally",
                                         !.failed = @ \cup {"title"}],
                    call.open)

\* the paragraphs of the description
FetchDescription(f) ==
    /\ call.fn = "scrape_katom"
    /\ call.f[f].pc = "description"
    /\ \/ FetchStep(f, [call.f[f] EXCEPT !.pc = "specs", !.description = "found"],
                    call.open)
       \/ FetchStep(f, [call.f[f] EXCEPT !.pc = "specs",
                                         !.failed = @ \cup {"description"}],
                    call.open)

(* extract_table_data: an error inside it is caught there, and what was    *)
(* collected up to the error is returned                                   *)
FetchSpecs(f) ==
    /\ call.fn = "scrape_katom"
    /\ call.f[f].pc = "specs"
    /\ \/ FetchStep(f, [call.f[f] EXCEPT !.pc = "video", !.specs = "found"], call.open)
       \/ \E got \in {"default", "partial"} :
            FetchStep(f, [call.f[f] EXCEPT !.pc = "video", !.specs = got,
                                           !.failed = @ \cup {"specs"}],
                      call.open)

\* the video links; an error leaves the links collected up to it
FetchVideo(f) ==
    /\ call.fn = "scrape_katom"
    /\ call.f[f].pc = "video"
    /\ \/ FetchStep(f, [call.f[f] EXCEPT !.pc = "finally", !.video = "found"],
                    call.open)
       \/ \E got \in {"default", "partial"} :
            FetchStep(f, [call.f[f] EXCEPT !.pc = "finally", !.video = got,
                                           !.failed = @ \cup {"video"}],
                      call.open)

\* a finally block that quits the driver only after a page was read
FetchFinally_OnSuccess(f) ==
    /\ call.fn = "scrape_katom"
    /\ call.f[f].pc = "finally"
    /\ IF call.f[f].driver = "open" /\ call.f[f].item_found
       THEN FetchStep(f, [call.f[f] EXCEPT !.pc = "returned", !.driver = "closed"],
                      call.open - 1)
       ELSE FetchStep(f, [call.f[f] EXCEPT !.pc = "returned"], call.open)

\* finally: if driver: driver.quit(); then the return
FetchFinally(f) ==
    /\ call.fn = "scrape_katom"
    /\ call.f[f].pc = "finally"
    /\ IF call.f[f].driver = "open"
       THEN FetchStep(f, [call.f[f] EXCEPT !.pc = "returned", !.driver = "closed"],
                      call.open - 1)
       ELSE FetchStep(f, [call.f[f] EXCEPT !.pc = "returned"], call.open)

NextFetch ==
    \/ \E f \in Fetchers : FetchCall(f)
    \/ \E f \in Fetchers : FetchOptions(f)
    \/ \E f \in Fetchers : FetchAcquire(f)
    \/ \E f \in Fetchers : FetchNavigate(f)
    \/ \E f \in Fetchers : FetchTitle(f)
    \/ \E f \in Fetchers : FetchDescription(f)
    \/ \E f \in Fetchers : FetchSpecs(f)
    \/ \E f \in Fetchers : FetchVideo(f)
    \/ \E f \in Fetchers : FetchFinally(f)

SpecFetch == InitFetch /\ [][NextFetch]_vars

(* C23: a call that has returned or raised holds no open session, so the   *)
(* sessions open are never more than the calls in flight                   *)
C23_SessionsReleased ==
    call.fn = "scrape_katom" =>
        /\ \A f \in Fetchers : f \notin InFlight => call.f[f].driver # "open"
        /\ call.open = Cardinality({f \in Fetchers : call.f[f].driver = "open"})
        /\ call.open <= Cardinality(InFlight)

\* a call returned after a failed navigation while the other holds a session
C23_Witness ==
    /\ call.fn = "scrape_katom"
    /\ \E f \in Fetchers : \E g \in Fetchers :
         /\ call.f[f].pc = "returned"
         /\ "navigate" \in call.f[f].failed
         /\ call.f[f].driver = "closed"
         /\ call.f[g].driver = "open"
    /\ call.open = 1

\* the sub-steps of a call whose failure is confined to one field
SubSteps == {"description", "specs", "video"}

(* C24: a call never raises to its caller; when the description, the specs *)
(* or the media sub-step fails, that field is at its default and the       *)
(* other fields are returned as they were found; when the session cannot   *)
(* be acquired or the navigation fails, every field is at its default      *)
C24_FetchNeverRaises ==
    call.fn = "scrape_katom" =>
        \A f \in Fetchers :
            LET c == call.f[f] IN
            /\ c.pc # "raised"
            /\ (c.pc = "returned" /\ c.item_found) =>
                  /\ c.title = "found"
                  /\ \A x \in SubSteps :
                       c[x] = IF x \in c.failed THEN "default" ELSE "found"
            /\ (c.pc = "returned" /\ c.failed \cap {"acquire", "navigate"} # {}) =>
                  /\ c.title = "default"
                  /\ \A x \in SubSteps : c[x] = "default"

(* the test of process_file on the title of a result: the title is not    *)
(* "Title not found" and does not contain "not found"                      *)
RowAppended(title) == title # "default"

(* C34: a call that returns without having tried the description, the      *)
(* specs and the media links returns the sentinel title, so that the run   *)
(* appends a row only for results whose extraction was tried               *)
C34_SkippedMeansSentinel ==
    call.fn = "scrape_katom" =>
        \A f \in Fetchers :
            LET c == call.f[f] IN
            (c.pc = "returned" /\ ~c.item_found) =>
                /\ c.title = "default"
                /\ ~RowAppended(c.title)

\* the records whose processing raises an error
Raising(n) == job.df[n] \in {"raise", "maperr"}

\* the fetches of the run whose record raises, in the fetch or after it
RaisedAt == {p \in 1..Len(job.log) : job.log[p].ev = "scrape" /\ Raising(job.log[p].n)}

(* C25: an error raised while a record is processed stays with the record: *)
(* the record gets no output row, its progress is emitted next, the fetch  *)
(* after it is the one of the next record with an identifier, no error is  *)
(* notified, and a run that is not cancelled goes on to its completion     *)
C25_RecordErrorIsolated ==
    \A p \in RaisedAt :
        LET n == job.log[p].n
            total == Len(job.df)
        IN
        /\ \A k \in 1..Len(job.row.output_df) :
             job.row.output_df[k].model # IdOf(job.df, n)
        /\ \A q \in p+1..Len(job.log) : job.log[q].ev # "error"
        /\ Len(job.log) > p =>
             job.log[p + 1] = [ev |-> "progress", n |-> n, total |-> total]
        /\ \A q \in p+1..Len(job.log) :
             (job.log[q].ev = "scrape" /\ \A x \in p+1..q-1 : job.log[x].ev # "scrape")
             => \A i \in n+1..job.log[q].n-1 : job.df[i] = "blank"
        /\ (job.pc = "end" /\ ~job.cancelled) =>
             /\ RowState(job.row) = "Completed"
             /\ \A i \in n+1..total :
                  job.df[i] # "blank" =>
                    \E q \in p+1..Len(job.log) :
                      job.log[q].ev = "scrape" /\ job.log[q].n = i

(* a run completed with the row of its second record after the building   *)
(* of the first record's row raised                                        *)
C25_Witness ==
    /\ job.pc = "end"
    /\ ~job.cancelled
    /\ job.df = <<"maperr", "hit">>
    /\ RaisedAt # {}
    /\ Len(job.row.output_df) = 1
    /\ RowState(job.row) = "Completed"

(* ------------------------------------------------ the file dropdowns *)
\* MainWindow.get_drive_web_files: the files of the Web folder
DriveFiles == {FileOf(r) : r \in Rows}

\* MainWindow.get_selected_files on the rows rs
get_selected_files(rs) == {rs[r].selected_file : r \in Rows} \ {NoFile}

(* SheetRow.load_files of row r: the files no other row has selected, and  *)
(* the row's own current selection, which is restored                      *)
load_files(rs, r) ==
    LET available_files ==
            {f \in DriveFiles :
                f \notin get_selected_files(rs) \/ f = rs[r].file_dropdown}
    IN [row |-> [rs[r] EXCEPT !.status_label =
                    IF available_files = {} THEN "No files available" ELSE "Found files"],
        items |-> available_files]

InitSelect ==
    /\ Start
    /\ files \in [Rows -> BatchFiles]
    /\ job = NoJob
    /\ call = NoCall
    /\ lists = [r \in Rows |-> DriveFiles]

(* the operator picks an entry of the row's dropdown: file_selected, which *)
(* reloads the dropdown of every other row that is not running             *)
SelectFile(r, f) ==
    /\ rows[r].controls
    /\ f \in lists[r] \cup {NoFile}
    /\ f # rows[r].file_dropdown
    /\ LET rs == [rows EXCEPT ![r] = file_selected(@, f)] IN
       /\ rows' = [o \in Rows |->
                     IF o # r /\ ~rs[o].running THEN load_files(rs, o).row ELSE rs[o]]
       /\ lists' = [o \in Rows |->
                     IF o # r /\ ~rs[o].running THEN load_files(rs, o).items ELSE lists[o]]
    /\ UNCHANGED <<threads, signals, disk, win, timers, env, hist, job, call>>

\* the operator clicks the row's refresh button
RefreshFiles(r) ==
    /\ rows[r].controls
    /\ rows' = [rows EXCEPT ![r] = load_files(rows, r).row]
    /\ lists' = [lists EXCEPT ![r] = load_files(rows, r).items]
    /\ UNCHANGED <<threads, signals, disk, win, timers, env, hist, job, call>>

(* the operator works the dropdowns, the refresh buttons and the Start and *)
(* Stop buttons of the rows while the worker threads are still at their    *)
(* start                                                                   *)
NextSelect ==
    \/ \E r \in Rows : \E f \in DriveFiles \cup {NoFile} : SelectFile(r, f)
    \/ \E r \in Rows : RefreshFiles(r)
    \/ \E r \in Rows : ClickStart(r) /\ UNCHANGED <<hist, job, call, lists>>
    \/ \E r \in Rows : ClickStop(r) /\ UNCHANGED <<hist, job, call, lists>>

SpecSelect == InitSelect /\ [][NextSelect]_vars

(* C26: no two rows have the same input file selected while one of them is *)
(* running                                                                 *)
C26_NoSharedFile ==
    \A a \in Rows : \A b \in Rows :
        (a # b /\ (rows[a].running \/ rows[b].running)) =>
            ~(rows[a].selected_file # NoFile
              /\ rows[a].selected_file = rows[b].selected_file)

(* ------------------------------------------- the status of an error *)
\* the characters of the longest error message
MaxMsgLen == 42

\* the characters of the message the status label shows
StatusChars == 40

\* error messages: n characters, the first k of them "a" and the others "b"
Messages ==
    {[i \in 1..n |-> IF i <= k THEN "a" ELSE "b"] :
        n \in 0..MaxMsgLen, k \in 0..MaxMsgLen}

\* s[:n] and s[-n:]
FirstChars(s, n) == SubSeq(s, 1, IF Len(s) < n THEN Len(s) ELSE n)

LastChars(s, n) == SubSeq(s, IF Len(s) < n THEN 1 ELSE Len(s) - n + 1, Len(s))

\* the status text around the part of the message shown
Decorated(part) == <<"E", "r", "r", "o", "r", ":", " ">> \o part \o <<".", ".", ".">>

\* a status label that shows the whole message
error_status_Whole(error_message) == Decorated(error_message)

\* f"Error: {error_message[:40]}..."
error_status(error_message) == Decorated(FirstChars(error_message, StatusChars))

\* an error signal with the message msg is about to be delivered
InitStatus ==
    /\ Start
    /\ files \in [Rows -> BatchFiles]
    /\ job = NoJob
    /\ lists = NoLists
    /\ \E msg \in Messages :
         call = [fn |-> "on_processing_error", msg |-> msg, done |-> FALSE,
                 row |-> start_processing(file_selected(NewRow, FileOf(1))),
                 label |-> <<>>, box |-> <<>>]

\* on_processing_error: the flags, the status label and the message box
CallStatus ==
    /\ call.fn = "on_processing_error"
    /\ ~call.done
    /\ call' = [call EXCEPT !.done = TRUE,
                            !.row = on_processing_error(@),
                            !.label = error_status(call.msg),
                            !.box = call.msg]
    /\ UNCHANGED job
    /\ RestIdle

NextStatus == CallStatus

SpecStatus == InitStatus /\ [][NextStatus]_vars

(* C28 as stated: the row in Error shows the last 40 characters of the     *)
(* message in its status, and the notification shows the whole message     *)
C28_ShowsLastForty ==
    (call.fn = "on_processing_error" /\ call.done) =>
        /\ RowState(call.row) = "Error"
        /\ call.label = Decorated(LastChars(call.msg, 40))
        /\ call.box = call.msg

(* C28: the row in Error shows the first 40 characters of the message in   *)
(* its status, all of it when it is shorter, and the notification shows    *)
(* the whole message                                                       *)
C28_ShowsFirstForty ==
    (call.fn = "on_processing_error" /\ call.done) =>
        /\ RowState(call.row) = "Error"
        /\ call.label = Decorated(FirstChars(call.msg, 40))
        /\ call.box = call.msg

\* a message of more than 40 characters whose two ends differ was shown
C28_Witness ==
    /\ call.fn = "on_processing_error"
    /\ call.done
    /\ Len(call.msg) > 40
    /\ FirstChars(call.msg, 40) # LastChars(call.msg, 40)
    /\ Len(call.label) = 50

(* ------------------------------------------- the specs in the output row *)
\* the entries of the specs dictionary of a fetch result
MaxSpecs == 2

LowerCase ==
    <<"a", "b", "c", "d", "e", "f", "g", "h", "i", "j", "k", "l", "m">> \o
    <<"n", "o", "p", "q", "r", "s", "t", "u", "v", "w", "x", "y", "z">>

UpperCase ==
    <<"A", "B", "C", "D", "E", "F", "G", "H", "I", "J", "K", "L", "M">> \o
    <<"N", "O", "P", "Q", "R", "S", "T", "U", "V", "W", "X", "Y", "Z">>

\* the lower-case letter of each capital, and the capital of each lower-case letter
Lowered == [c \in Range(UpperCase) |-> LowerCase[CHOOSE u \in 1..26 : UpperCase[u] = c]]
Raised == [c \in Range(LowerCase) |-> UpperCase[CHOOSE u \in 1..26 : LowerCase[u] = c]]

\* str.lower()
str_lower(t) ==
    [k \in 1..Len(t) |-> IF t[k] \in DOMAIN Lowered THEN Lowered[t[k]] ELSE t[k]]

\* str.title(): a letter after a letter is lowered, any other letter is raised
str_title(t) ==
    [k \in 1..Len(t) |->
        IF k > 1 /\ t[k - 1] \in DOMAIN Lowered \cup DOMAIN Raised
        THEN (IF t[k] \in DOMAIN Lowered THEN Lowered[t[k]] ELSE t[k])
        ELSE (IF t[k] \in DOMAIN Raised THEN Raised[t[k]] ELSE t[k])]

\* the list of spec fields process_file uses without a configuration
DefaultSpecFields ==
    <<<<"m", "a", "n", "u", "f", "a", "c", "t", "u", "r", "e", "r">>,
      <<"f", "o", "o", "d", " ", "t", "y", "p", "e">>,
      <<"f", "r", "y", "p", "o", "t", " ", "s", "t", "y", "l", "e">>,
      <<"h", "e", "a", "t">>,
      <<"h", "e", "r", "t", "z">>,
      <<"n", "e", "m", "a">>,
      <<"n", "u", "m", "b", "e", "r", " ", "o", "f", " ", "f", "r", "y", " ", "p", "o", "t", "s">>,
      <<"o", "i", "l", " ", "c", "a", "p", "a", "c", "i", "t", "y", "/", "f", "r", "y", "e", "r", " ", "(", "l", "b", ")">>,
      <<"p", "h", "a", "s", "e">>,
      <<"p", "r", "o", "d", "u", "c", "t">>,
      <<"p", "r", "o", "d", "u", "c", "t", " ", "t", "y", "p", "e">>,
      <<"r", "a", "t", "i", "n", "g">>,
      <<"s", "p", "e", "c", "i", "a", "l", " ", "f", "e", "a", "t", "u", "r", "e", "s">>,
      <<"t", "y", "p", "e">>,
      <<"v", "o", "l", "t", "a", "g", "e">>,
      <<"w", "a", "r", "r", "a", "n", "t", "y">>,
      <<"w", "e", "i", "g", "h", "t">>>>

\* a list of spec fields an operator has configured, with capitals
ConfigSpecFields ==
    <<<<"T", "y", "p", "e">>,
      <<"F", "o", "o", "d", " ", "T", "y", "p", "e">>,
      <<"W", "e", "i", "g", "h", "t">>>>

(* the keys of a specs dictionary: extract_table_data stores them lowered  *)
(* and never stores an empty key                                           *)
SpecKeys ==
    Range(DefaultSpecFields) \cup
    {<<"c", "o", "l", "o", "r">>,
     <<"s", "h", "i", "p", "p", "i", "n", "g", " ", "w", "e", "i", "g", "h", "t">>,
     <<"o", "i", "l", " ", "c", "a", "p", "a", "c", "i", "t", "y">>}

(* the value of a key on the page: a weight for the weight keys, and for   *)
(* every other key a text of its own                                       *)
SpecValue(key) ==
    IF Contains(key, <<"w", "e", "i", "g", "h", "t">>) THEN PageWeight ELSE <<"x">> \o key

\* the specs dictionaries, in the order of their items: no key twice
SpecDicts ==
    {[a \in 1..Len(ks) |-> <<ks[a], SpecValue(ks[a])>>] :
        ks \in {k \in UNION {[1..n -> SpecKeys] : n \in 0..MaxSpecs} :
                   \A a \in 1..Len(k) : \A b \in 1..Len(k) : k[a] = k[b] => a = b}}

\* key.lower() == field.lower() or key.lower() in field.lower()
KeyMatches(key, field) ==
    \/ str_lower(key) = str_lower(field)
    \/ Contains(str_lower(field), str_lower(key))

\* a search that goes on to the last field that matches
first_match_Last(key, fields) ==
    LET hits == {j \in 1..Len(fields) : KeyMatches(key, fields[j])} IN
    IF hits = {} THEN 0 ELSE CHOOSE j \in hits : \A h \in hits : h <= j

\* `for field in common_spec_fields: if ...: ...; break`: the field written, or 0
first_match(key, fields) ==
    LET hits == {j \in 1..Len(fields) : KeyMatches(key, fields[j])} IN
    IF hits = {} THEN 0 ELSE CHOOSE j \in hits : \A h \in hits : j <= h

(* the loop over specs_dict.items(): row_data after it, and the columns    *)
(* written, in order                                                       *)
RECURSIVE map_specs(_, _, _)
map_specs(specs, fields, acc) ==
    IF specs = <<>> THEN acc
    ELSE LET key == specs[1][1]
             value == IF Contains(str_lower(key), <<"w", "e", "i", "g", "h", "t">>)
                      THEN process_weight_value(specs[1][2])
                      ELSE specs[1][2]
             j == first_match(key, fields)
         IN
         map_specs(Tail(specs), fields,
                   IF j = 0 THEN acc
                   ELSE [row_data |-> [acc.row_data EXCEPT ![str_title(fields[j])] = value],
                         writes |-> Append(acc.writes,
                                           [key |-> key, column |-> str_title(fields[j]),
                                            value |-> value])])

\* row_data[field.title()] = "" for every field
empty_columns(fields) ==
    [row_data |-> [c \in {str_title(fields[j]) : j \in 1..Len(fields)} |-> <<>>],
     writes |-> <<>>]

\* the specs of a fetch result are about to be mapped to the columns
InitMap ==
    /\ Start
    /\ files \in [Rows -> BatchFiles]
    /\ job = NoJob
    /\ lists = NoLists
    /\ \E specs \in SpecDicts : \E fields \in {DefaultSpecFields, ConfigSpecFields} :
         call = [fn |-> "map_specs", specs |-> specs, fields |-> fields,
                 done |-> FALSE, row_data |-> <<>>, writes |-> <<>>]

\* the columns are initialised and the specs are mapped
CallMap ==
    /\ call.fn = "map_specs"
    /\ ~call.done
    /\ LET ret == map_specs(call.specs, call.fields, empty_columns(call.fields)) IN
       call' = [call EXCEPT !.done = TRUE, !.row_data = ret.row_data,
                            !.writes = ret.writes]
    /\ UNCHANGED job
    /\ RestIdle

NextMap == CallMap

SpecMap == InitMap /\ [][NextMap]_vars

\* the writes of the mapping made for a key
WritesOf(key) == {w \in 1..Len(call.writes) : call.writes[w].key = key}

\* the fields a key matches, by number
Matching(key) == {j \in 1..Len(call.fields) : KeyMatches(key, call.fields[j])}

(* C36: each key of the specs is written to one column, the column of the  *)
(* first field in configured order whose lowered name equals or contains   *)
(* the lowered key; a key that matches no field is written nowhere; a      *)
(* column no key was written to holds the empty string                     *)
C36_OneColumnPerKey ==
    (call.fn = "map_specs" /\ call.done) =>
        /\ \A a \in 1..Len(call.specs) :
             LET key == call.specs[a][1] IN
             IF Matching(key) = {}
             THEN WritesOf(key) = {}
             ELSE /\ Cardinality(WritesOf(key)) = 1
                  /\ \A w \in WritesOf(key) :
                       \E j \in Matching(key) :
                          /\ \A h \in Matching(key) : j <= h
                          /\ call.writes[w].column = str_title(call.fields[j])
        /\ \A c \in DOMAIN call.row_data :
             (\A w \in 1..Len(call.writes) : call.writes[w].column # c)
                => call.row_data[c] = <<>>
        /\ \A w \in 1..Len(call.writes) :
             (\A v \in (w + 1)..Len(call.writes) :
                  call.writes[v].column # call.writes[w].column)
                => call.row_data[call.writes[w].column] = call.writes[w].value

(* the key "product" matches the fields product and product type and is    *)
(* written to Product only; "color" is written nowhere                     *)
C36_Witness ==
    /\ call.fn = "map_specs"
    /\ call.done
    /\ call.fields = DefaultSpecFields
    /\ call.specs = <<<<<<"p", "r", "o", "d", "u", "c", "t">>,
                        <<"x", "p", "r", "o", "d", "u", "c", "t">>>>,
                      <<<<"c", "o", "l", "o", "r">>, <<"x", "c", "o", "l", "o", "r">>>>>>
    /\ Len(call.writes) = 1
    /\ call.writes[1].column = <<"P", "r", "o", "d", "u", "c", "t">>
    /\ call.row_data[<<"P", "r", "o", "d", "u", "c", "t", " ", "T", "y", "p", "e">>] = <<>>

(* C37: with the default list of fields, a key equal to the name of a      *)
(* field is written to the column of that field                            *)
C37_ExactKeyOwnColumn ==
    (call.fn = "map_specs" /\ call.done /\ call.fields = DefaultSpecFields) =>
        \A a \in 1..Len(call.specs) : \A j \in 1..Len(call.fields) :
            str_lower(call.specs[a][1]) = str_lower(call.fields[j]) =>
                \E w \in WritesOf(call.specs[a][1]) :
                    call.writes[w].column = str_title(call.fields[j])

====
